---- MODULE Spec2Model ----
(***************************************************************************)
(* Model of the mtrpc server runtime (mtrpc/server/threads.py): the        *)
(* RPCManager and RPCResponder service threads, the RPCTaskThread workers, *)
(* and the state they share (task_dict, result_fifo, mutex, the            *)
(* responder-stopping pipe).                                               *)
(***************************************************************************)
EXTENDS Integers, Sequences, FiniteSets, TLC

\* ---------------------------------------------------------------- bounds
\* number of request deliveries the broker hands to the manager
MaxMsgs == 2
\* number of RPCManager.stop() calls made by other threads
MaxStops == 2
\* number of AmqpServer.start() calls on the one server object
MaxStarts == 2
\* items on result_fifo when the server is started again
MaxLeftover == 1
\* largest configured try_action_attempts / connect_attempts
MaxAttempts == 2
\* runs of an action, or connection attempts, followed in a loop that the
\* configuration leaves unbounded
MaxTries == 3
\* calls of the retry-wrapped action made by one main loop
MaxCalls == 2

\* reply_to addresses carried by the request messages
ReplyTos == {"rq1"}

\* ------------------------------------------------------------- constants
None == [none |-> TRUE]

MGR_REASON_PREFIX == "requested by the manager"
RESP_REASON_PREFIX == "requested by the responder"

TaskIds == 1..MaxMsgs
StopIds == 1..MaxStops

\* Stopping = namedtuple('Stopping', 'reason loglevel force'); the reason
\* string is kept as the sequence of its parts.
Stopping(reason, loglevel, force) ==
    [kind |-> "stop", reason |-> reason, loglevel |-> loglevel, force |-> force]

\* Task = namedtuple('Task', 'id request_message access_dict ... reply_to')
Task(id, reply_to) == [id |-> id, reply_to |-> reply_to]

\* Result = namedtuple('Result', 'task_id reply_to response_message')
Result(task_id, reply_to, response_message) ==
    [kind |-> "result", task_id |-> task_id, reply_to |-> reply_to,
     response_message |-> response_message]

\* ------------------------------------------------------------- variables
VARIABLES
    mgrPc,         \* position of the RPCManager thread
    mgrStopping,   \* RPCManager.stopping
    mgrTask,       \* get_and_go: the task built for the current delivery
    task_recorded, \* get_and_go: the local flag task_recorded
    respPc,        \* position of the RPCResponder thread
    respStopping,  \* RPCResponder.stopping
    respResult,    \* main_loop: the local variable result
    respExit,      \* how the responder left main_loop: none / cond / error
    mutex,         \* the shared threading.Lock: free, or mgr while the manager
                   \* holds it (the responder's `with' blocks are single steps)
    task_dict,     \* the shared in-flight map: task id -> Task
    result_fifo,   \* the shared Queue.Queue
    task_id_gen,   \* RPCManager._task_id_gen (next value)
    worker,        \* RPCTaskThread of each task id
    stopPc,        \* position of each external stop() caller
    pipeClosed,    \* responder.stopping_fd_w has been closed
    acked,         \* deliveries acked to the broker (by task id)
    putLog,        \* <<task_id, reply_to>> of every Result put, in order
    stopsPut,      \* number of stop requests ever put on result_fifo
    published,     \* <<task_id, reply_to>> of every Result published, in order
    mgrConnected,  \* RPCManager._is_connected
    finalCallback, \* the final callback and how often its body was entered
    not_completed, \* RPCResponder.final_action: ids in the snapshot of tasks
                   \* (empty until the snapshot is taken)
    \* one AMQPClientServiceThread on its own (see the client section)
    cPc,           \* position of the thread
    cCfg,          \* its try_action_attempts and connect_attempts
    cReinit,       \* amqp_init is being run by the retry wrapper
    cConnTries,    \* _new_amqp_conn: failed attempts so far (attempt_nr)
    cAttempt,      \* retry wrapper: failed runs so far (attempt_nr)
    cRuns,         \* retry wrapper: runs of the action in this call
    cCloses,       \* retry wrapper: amqp_close calls in this call
    cReinits,      \* retry wrapper: amqp_init calls in this call
    cCalls,        \* calls of the wrapped action made by main_loop
    cLast,         \* what the last run of the action did
    cRaised,       \* the exception the wrapper call ended with
    cOpen,         \* connections opened by the thread and not closed
    cIsConnected,  \* _is_connected
    cStopping,     \* the thread's stopping descriptor
    cFinalRan,     \* final_action has run
    \* one RPCTaskThread at a time over a fixed RPC tree (see the tree section)
    tPc,           \* idle / task (a task thread is running) / done
    tBinding,      \* the access policy of the binding the requests come by
    tRequest,      \* the deserialized request of the task
    tResponse,     \* the response_dict the task thread built
    \* one RPCTaskThread followed through run() (see the task thread section)
    wPc,           \* off / obtain / call / respond / done / crashed
    wTask,         \* the Task the thread was created with
    wRequest,      \* run: the local variable request (None: not bound)
    wExc,          \* run: exc_type and exc (None: exc_type is None)
    wBody,         \* what the procedure called does (None: none called)
    wInvoked,      \* number of times the procedure's callable was entered
    wResult,       \* run: the value the procedure returned
    wPuts,         \* the Results the thread has put on result_fifo
    \* one callable wrapped as an RPCMethod and called (see the method section)
    mPc,           \* off / wrap / ready / called
    mSpec,         \* inspect.getargspec of the callable
    mMethod,       \* the RPCMethod made of it (None: none was made)
    mRaised,       \* the exception the last operation ended with
    mCalled,       \* the arguments of the call of the RPCMethod
    mReceived,     \* the arguments the callable was entered with, per entry
    mReturned,     \* the value the call of the RPCMethod returned
    \* the manager's queues and bindings (see the bindings section)
    bPc,           \* off / new / inited / consuming
    bBindings,     \* the `bindings' argument of RPCManager.init
    bQueues,       \* RPCManager._queues
    bQueues2bindings,  \* RPCManager._queues2bindings
    bConsumers,    \* the consumer tags registered on the channel
    bTask,         \* the Task made by the last get_and_go (None: none)
    \* an RPCTree that is added to and iterated (see the growing tree section)
    gPc,           \* off / on
    gCalls,        \* the number of calls made on the tree
    gTree,         \* the RPCTree: _item_dict and the RPCModule objects
    gRaised,       \* the exception the last call ended with
    gLast,         \* the last call and its arguments
    gOut,          \* the names the last iteration yielded
    \* RPCTree.build for a graph of Python modules (see the build section)
    uPc,           \* off / new / done
    uGraph,        \* the Python modules, their attributes and members
    uResult,       \* what build left: the tree, is_built, the exception, ...
    \* the server object the threads belong to (see the restart section)
    srvStarts      \* number of AmqpServer.start() calls that made threads

threadVars == <<mgrPc, mgrStopping, mgrTask, task_recorded, respPc, respStopping,
          respResult, respExit, mutex, task_dict, result_fifo, task_id_gen,
          worker, stopPc, pipeClosed, acked, putLog, stopsPut, published,
          mgrConnected, finalCallback, not_completed>>

clientVars == <<cPc, cCfg, cReinit, cConnTries, cAttempt, cRuns, cCloses,
                cReinits, cCalls, cLast, cRaised, cOpen, cIsConnected,
                cStopping, cFinalRan>>

\* the variables the threads of the server leave alone
treeVars == <<tPc, tBinding, tRequest, tResponse>>

taskVars == <<wPc, wTask, wRequest, wExc, wBody, wInvoked, wResult, wPuts>>

methodVars == <<mPc, mSpec, mMethod, mRaised, mCalled, mReceived, mReturned>>

bindVars == <<bPc, bBindings, bQueues, bQueues2bindings, bConsumers, bTask>>

growVars == <<gPc, gCalls, gTree, gRaised, gLast, gOut>>

buildVars == <<uPc, uGraph, uResult>>

serverVars == <<srvStarts>>

auxVars == <<clientVars, treeVars, taskVars, methodVars, bindVars, growVars,
             buildVars, serverVars>>

vars == <<threadVars, auxVars>>

mgrEndVars == <<mgrConnected, finalCallback>>
mgrVars == <<mgrPc, mgrStopping, mgrTask, task_recorded, task_id_gen,
            mgrEndVars>>
respVars == <<respPc, respStopping, respResult, respExit, not_completed>>
histVars == <<acked, putLog, stopsPut, published>>

\* ----------------------------------------------------------------- init
\* State after AmqpServer.start(): both threads constructed and started
\* (RPCManager.init starts the responder), shared objects fresh.
ThreadsInit ==
    /\ mgrPc = "start"
    /\ mgrStopping = None
    /\ mgrTask = None
    /\ task_recorded = FALSE
    /\ respPc = "start"
    /\ respStopping = None
    /\ respResult = None
    /\ respExit = "none"
    /\ mutex = "free"
    /\ task_dict = <<>>
    /\ result_fifo = <<>>
    /\ task_id_gen = 1
    /\ worker = [i \in TaskIds |-> "none"]
    /\ stopPc = [i \in StopIds |-> "idle"]
    /\ pipeClosed = FALSE
    /\ acked = {}
    /\ putLog = <<>>
    /\ stopsPut = 0
    /\ published = <<>>
    /\ mgrConnected = FALSE
    /\ finalCallback = None
    /\ not_completed = {}
    /\ srvStarts = 1

\* the lone client thread, not started
ClientIdle ==
    /\ cPc = "idle"
    /\ cCfg = None
    /\ cReinit = FALSE
    /\ cConnTries = 0
    /\ cAttempt = 0
    /\ cRuns = 0
    /\ cCloses = 0
    /\ cReinits = 0
    /\ cCalls = 0
    /\ cLast = "none"
    /\ cRaised = "none"
    /\ cOpen = 0
    /\ cIsConnected = FALSE
    /\ cStopping = None
    /\ cFinalRan = FALSE

\* no request is being answered over the tree
TreeIdle ==
    /\ tPc = "off"
    /\ tBinding = None
    /\ tRequest = None
    /\ tResponse = None

\* no task thread is followed
TaskIdle ==
    /\ wPc = "off"
    /\ wTask = None
    /\ wRequest = None
    /\ wExc = None
    /\ wBody = None
    /\ wInvoked = 0
    /\ wResult = None
    /\ wPuts = <<>>

\* no callable is being wrapped
MethodIdle ==
    /\ mPc = "off"
    /\ mSpec = None
    /\ mMethod = None
    /\ mRaised = "none"
    /\ mCalled = None
    /\ mReceived = <<>>
    /\ mReturned = None

\* no manager is being set up for a list of bindings
BindIdle ==
    /\ bPc = "off"
    /\ bBindings = <<>>
    /\ bQueues = <<>>
    /\ bQueues2bindings = <<>>
    /\ bConsumers = {}
    /\ bTask = None

\* no tree is being added to
GrowIdle ==
    /\ gPc = "off"
    /\ gCalls = 0
    /\ gTree = None
    /\ gRaised = "none"
    /\ gLast = None
    /\ gOut = <<>>

\* no tree is being built
BuildIdle ==
    /\ uPc = "off"
    /\ uGraph = None
    /\ uResult = None

Init ==
    /\ ThreadsInit /\ ClientIdle /\ TreeIdle /\ TaskIdle /\ MethodIdle
    /\ BindIdle /\ GrowIdle /\ BuildIdle

\* --------------------------------------------------------------- helpers
\* Queue.Queue.put / Queue.Queue.get as used on result_fifo
FifoPut(q, item) == Append(q, item)

\* (variant: the newest item is taken first)
FifoGet_Newest(q) ==
    [item |-> q[Len(q)], rest |-> SubSeq(q, 1, Len(q) - 1)]

FifoGet(q) == [item |-> Head(q), rest |-> Tail(q)]

\* del d[k] / d[k] = v on the shared dict
DictDel(d, k) == [j \in (DOMAIN d) \ {k} |-> d[j]]
DictSet(d, k, v) == [j \in (DOMAIN d) \cup {k} |-> IF j = k THEN v ELSE d[j]]

\* Python truth value of a stopping attribute (None is false, a namedtuple
\* with fields is true)
IsSet(stopping) == stopping # None

\* ServiceThread.main: the two except clauses build the stopping descriptor
\* (loglevel 'error' for an EverydayError such as AMQPError, 'critical' for
\* any other exception)
ErrorStopping(loglevel) ==
    Stopping(<<IF loglevel = "error" THEN "error" ELSE "uncommon error">>,
             loglevel, FALSE)

\* RPCManager._stop_the_responder: the descriptor that is put on the fifo
ResponderStopping(stopping, fromManagerThread) ==
    IF fromManagerThread
    THEN [stopping EXCEPT !.reason = <<MGR_REASON_PREFIX>> \o stopping.reason]
    ELSE stopping

\* ------------------------------------------------------------ the worker
\* What can happen at each stage of RPCTaskThread.run for one request
DecodeOutcomes == {"ok", "not_json", "malformed", "null_id"}
LookupOutcomes == {"found", "not_found", "bad_pattern"}
CallOutcomes == {"returns", "arg_error", "bad_pattern", "wrapped", "other"}
EncodeOutcomes == {"ok", "type_error", "other_error"}

Requests ==
    [decode : DecodeOutcomes, lookup : LookupOutcomes,
     call : CallOutcomes, encode : EncodeOutcomes]

\* The requests served in the model of the threads: one that is answered,
\* one whose response cannot be built
ServedRequests ==
    {[decode |-> "ok", lookup |-> "found", call |-> "returns", encode |-> e] :
        e \in {"ok", "other_error"}}

\* RPCTaskThread.run, first try block (lines 1114-1142): the exception type
\* left in exc_type, "none" when the method was obtained.  A request that
\* is not JSON makes _deserialize_request evaluate the name
\* RPCDeserializationError, which errors.py does not define: the NameError
\* is caught by the `except Exception' clause.
ObtainExc(req) ==
    CASE req.decode = "not_json" -> "RPCInternalServerError"
      [] req.decode = "malformed" -> "RPCInvalidRequestError"
      [] req.decode = "null_id" -> "RPCNotificationsNotImplementedError"
      [] req.decode = "ok" /\ req.lookup = "not_found" -> "RPCNotFoundError"
      [] req.decode = "ok" /\ req.lookup = "bad_pattern" -> "RPCInternalServerError"
      [] OTHER -> "none"

\* RPCTaskThread.run, the call (lines 1144-1199): exc_type after it
CallExc(req) ==
    CASE req.call = "returns" -> "none"
      [] req.call = "arg_error" -> "RPCMethodArgError"
      [] req.call = "bad_pattern" -> "RPCInternalServerError"
      [] req.call = "wrapped" -> "WrappedExc"
      [] req.call = "other" -> "RPCInternalServerError"

\* RPCTaskThread.run, lines 1194-1211: the response dict
ResponseDict(req) ==
    LET exc == IF ObtainExc(req) # "none" THEN ObtainExc(req) ELSE CallExc(req)
    IN  [result |-> IF exc = "none" THEN "value" ELSE "null",
         error |-> IF exc = "none" THEN "null" ELSE exc,
         id |-> IF req.decode = "ok" THEN "request.id" ELSE "task.reply_to"]

\* RPCTaskThread._serialize_response (lines 1254-1262)
SerializeResponse(response_dict, encode) ==
    IF encode = "type_error"
    THEN [result |-> "null", error |-> "RPCServerSerializationError",
          id |-> response_dict.id]
    ELSE response_dict

\* (variant: a request that could not be decoded gets no Result)
RunPuts_DropUndecoded(task, req) ==
    IF req.encode = "other_error" \/ req.decode # "ok"
    THEN <<>>
    ELSE <<Result(task.id, task.reply_to,
                  SerializeResponse(ResponseDict(req), req.encode))>>

\* RPCTaskThread.run as a whole: the items the thread puts on result_fifo.
\* An exception other than TypeError while the response is built or dumped
\* reaches the outer except clause (lines 1218-1220): nothing is put.
RunPuts(task, req) ==
    IF req.encode = "other_error"
    THEN <<>>
    ELSE <<Result(task.id, task.reply_to,
                  SerializeResponse(ResponseDict(req), req.encode))>>

\* ----------------------------------------------------------- the manager
\* ServiceThread.main, the except clauses: the manager's activity is broken
\* by an error; its stopping descriptor is overwritten, final_action follows
MgrBroken(loglevel) ==
    /\ mgrStopping' = ErrorStopping(loglevel)
    /\ mgrPc' = "final"

\* AMQPClientServiceThread.starting_action -> RPCManager.amqp_init
MgrStart ==
    /\ mgrPc = "start"
    /\ \/ /\ mgrPc' = "loop"
          /\ mgrConnected' = TRUE
          /\ UNCHANGED mgrStopping
       \/ /\ MgrBroken("error")     \* amqp_init raised AMQPError:
          /\ \E declaring \in BOOLEAN :  \* while connecting or declaring
                mgrConnected' = declaring
    /\ UNCHANGED <<auxVars, finalCallback,
                   mgrTask, task_recorded, task_id_gen, respVars, mutex,
                   task_dict, result_fifo, worker, stopPc, pipeClosed,
                   histVars>>

\* RPCManager.main_loop, lines 796-802: the manager's descriptor when the
\* loop was left without one (the stop was caused by the responder)
AfterLoopStopping(stopping, responder_stopping) ==
    IF IsSet(stopping)
    THEN stopping
    ELSE [responder_stopping EXCEPT
             !.reason = <<RESP_REASON_PREFIX>> \o responder_stopping.reason]

\* RPCManager.main_loop, lines 788-802: the while condition is evaluated;
\* when it ends the loop the manager's descriptor is completed
MgrLoopCheck ==
    /\ mgrPc = "loop"
    /\ IF IsSet(mgrStopping) \/ IsSet(respStopping)
       THEN /\ mgrStopping' = AfterLoopStopping(mgrStopping, respStopping)
            /\ mgrPc' = "final"
       ELSE /\ mgrPc' = "wait"
            /\ UNCHANGED mgrStopping
    /\ UNCHANGED <<auxVars, mgrEndVars,
                   mgrTask, task_recorded, task_id_gen, respVars,
                   mutex, task_dict, result_fifo, worker, stopPc, pipeClosed,
                   histVars>>

\* wait_for_msg: a request message arrives and get_and_go runs up to its
\* check under the mutex (lines 815-838): the task is built with the next
\* task id, `with self.mutex' is entered, and if the responder is stopping
\* the callback returns at once (the mutex is released; the finally clause
\* follows)
MgrDeliver(reply_to) ==
    /\ mgrPc = "wait"
    /\ ~pipeClosed
    /\ task_id_gen <= MaxMsgs
    /\ mutex = "free"
    /\ task_id_gen' = task_id_gen + 1
    /\ task_recorded' = FALSE
    /\ mgrTask' = Task(task_id_gen, reply_to)
    /\ IF IsSet(respStopping)
       THEN /\ mgrPc' = "gg_ack"
            /\ UNCHANGED mutex
       ELSE /\ mutex' = "mgr"
            /\ mgrPc' = "gg_record"
    /\ UNCHANGED <<auxVars, mgrEndVars,
                   mgrStopping, respVars, task_dict, result_fifo, worker,
                   stopPc, pipeClosed, histVars>>

\* (variant: the closed pipe is handled as a failure of wait_for_msg)
MgrRespStopping_AsError ==
    /\ mgrPc = "wait"
    /\ pipeClosed
    /\ MgrBroken("critical")
    /\ UNCHANGED <<auxVars, mgrEndVars,
                   mgrTask, task_recorded, task_id_gen, respVars,
                   mutex, task_dict, result_fifo, worker, stopPc, pipeClosed,
                   histVars>>

\* SockWrapper.SW__wrapped_reading_method: the pipe is readable because the
\* responder closed its end; RespStopping leaves main_loop (lines 791-802)
MgrRespStopping ==
    /\ mgrPc = "wait"
    /\ pipeClosed
    /\ IF IsSet(mgrStopping) \/ IsSet(respStopping)
       THEN /\ mgrStopping' = AfterLoopStopping(mgrStopping, respStopping)
            /\ mgrPc' = "final"
       ELSE MgrBroken("critical")
    /\ UNCHANGED <<auxVars, mgrEndVars,
                   mgrTask, task_recorded, task_id_gen, respVars,
                   mutex, task_dict, result_fifo, worker, stopPc, pipeClosed,
                   histVars>>

\* wait_for_msg fails for good: the retry wrapper gave up and re-raised
\* the exception of the action (line 462)
MgrWaitFail ==
    /\ mgrPc = "wait"
    /\ MgrBroken("critical")
    /\ UNCHANGED <<auxVars, mgrEndVars,
                   mgrTask, task_recorded, task_id_gen, respVars, mutex,
                   task_dict, result_fifo, worker, stopPc, pipeClosed,
                   histVars>>

\* get_and_go, lines 839-848: the task is recorded, the task thread is
\* created and started, the mutex is released
MgrRecord ==
    /\ mgrPc = "gg_record"
    /\ task_dict' = DictSet(task_dict, mgrTask.id, mgrTask)
    /\ task_recorded' = TRUE
    /\ worker' = [worker EXCEPT ![mgrTask.id] = "running"]
    /\ mutex' = "free"
    /\ mgrPc' = "gg_ack"
    /\ UNCHANGED <<auxVars, mgrEndVars,
                   mgrStopping, mgrTask, task_id_gen, respVars, result_fifo,
                   stopPc, pipeClosed, histVars>>

\* (variant: the delivery is acked whether or not the task was recorded)
AckAlways(flag) == TRUE

\* get_and_go, the finally clause: whether basic_ack is called
AckWanted(flag) == flag

\* get_and_go, lines 849-853: the delivery is acked; the callback returns
\* and wait_for_msg with it.  A basic_ack that fails for good breaks
\* wait_for_msg.
MgrAck ==
    /\ mgrPc = "gg_ack"
    /\ \/ /\ acked' = IF AckWanted(task_recorded)
                      THEN acked \cup {mgrTask.id} ELSE acked
          /\ mgrPc' = "loop"
          /\ UNCHANGED mgrStopping
       \/ /\ AckWanted(task_recorded)
          /\ MgrBroken("critical")
          /\ UNCHANGED acked
    /\ mgrTask' = None
    /\ UNCHANGED <<auxVars, mgrEndVars,
                   task_recorded, task_id_gen, respVars, mutex, task_dict,
                   result_fifo, worker, stopPc, pipeClosed, putLog, stopsPut,
                   published>>

\* (variant: the stop request is put without looking at the responder)
StopRequestAlways(responder_stopping) == TRUE

\* RPCManager.final_action, line 890: whether the responder has to be told
StopRequestNeeded(responder_stopping) == ~IsSet(responder_stopping)

\* RPCManager.final_action, lines 886-892: the connection is closed and,
\* if the responder is not stopping yet, a stop request is put on the fifo
MgrFinalStop ==
    /\ mgrPc = "final"
    /\ IF StopRequestNeeded(respStopping)
       THEN /\ result_fifo' =
                  FifoPut(result_fifo, ResponderStopping(mgrStopping, TRUE))
            /\ stopsPut' = stopsPut + 1
       ELSE UNCHANGED <<result_fifo, stopsPut>>
    /\ mgrConnected' = FALSE
    /\ mgrPc' = "join"
    /\ UNCHANGED <<auxVars, finalCallback,
                   mgrStopping, mgrTask, task_recorded, task_id_gen, respVars,
                   mutex, task_dict, worker, stopPc, pipeClosed, acked,
                   putLog, published>>

\* The final callback given to RPCManager.init: None, a callable taking the
\* manager, a callable taking nothing, or a callable taking either
FinalCallbackKinds == {"none", "one_arg", "no_arg", "any_args"}
\* what the body of the callback does when it is entered
FinalCallbackOutcomes == {"ok", "type_error", "other_error"}

\* Python's call protocol: a call with nargs positional arguments enters
\* the body only if the signature accepts them, else it raises TypeError
Accepts(kind, nargs) ==
    \/ kind = "one_arg" /\ nargs = 1
    \/ kind = "no_arg" /\ nargs = 0
    \/ kind = "any_args"

CallResult(kind, outcome, nargs) ==
    IF Accepts(kind, nargs) THEN outcome ELSE "type_error"

\* (variant: the callback is only ever called with the manager)
FinalCallbackCalls_OneArgOnly(kind, outcome) ==
    IF kind = "none" THEN <<>> ELSE <<1>>

\* RPCManager.final_action, lines 900-911: the calls made, each given by
\* its number of arguments: final_callback(self), and final_callback()
\* when the first call raised TypeError
FinalCallbackCalls(kind, outcome) ==
    IF kind = "none"
    THEN <<>>
    ELSE IF CallResult(kind, outcome, 1) = "type_error"
         THEN <<1, 0>>
         ELSE <<1>>

\* how many of these calls entered the body of the callback
FinalCallbackRuns(kind, outcome) ==
    LET calls == FinalCallbackCalls(kind, outcome)
    IN  Cardinality({k \in DOMAIN calls : Accepts(kind, calls[k])})

\* (variant: the final callback runs without waiting for the responder)
MgrJoin_NoWait ==
    /\ mgrPc = "join"
    /\ mgrPc' = "done"
    /\ \E kind \in FinalCallbackKinds, outcome \in FinalCallbackOutcomes :
          finalCallback' =
              [kind |-> kind, runs |-> FinalCallbackRuns(kind, outcome)]
    /\ UNCHANGED <<auxVars, mgrConnected,
                   mgrStopping, mgrTask, task_recorded, task_id_gen, respVars,
                   mutex, task_dict, result_fifo, worker, stopPc, pipeClosed,
                   histVars>>

\* RPCManager.final_action, lines 894-911: the responder is joined, then the
\* pipe end is closed and the final callback runs (an exception it raises
\* is logged); the thread terminates
MgrJoin ==
    /\ mgrPc = "join"
    /\ respPc = "done"
    /\ mgrPc' = "done"
    /\ \E kind \in FinalCallbackKinds, outcome \in FinalCallbackOutcomes :
          finalCallback' =
              [kind |-> kind, runs |-> FinalCallbackRuns(kind, outcome)]
    /\ UNCHANGED <<auxVars, mgrConnected,
                   mgrStopping, mgrTask, task_recorded, task_id_gen, respVars,
                   mutex, task_dict, result_fifo, worker, stopPc, pipeClosed,
                   histVars>>

\* --------------------------------------------------------- the responder
\* ServiceThread.main, the except clauses, in the responder thread: the
\* stopping descriptor is assigned (outside any `with self.mutex')
RespBroken(loglevel) ==
    /\ respStopping' = ErrorStopping(loglevel)
    /\ respExit' = "error"
    /\ respPc' = "final"

\* AMQPClientServiceThread.starting_action -> RPCResponder.amqp_init
RespStart ==
    /\ respPc = "start"
    /\ \/ /\ respPc' = "check"
          /\ UNCHANGED <<respStopping, respExit>>
       \/ RespBroken("error")    \* amqp_init raised AMQPError
    /\ UNCHANGED <<auxVars, not_completed,
                   respResult, mgrVars, mutex, task_dict, result_fifo, worker,
                   stopPc, pipeClosed, histVars>>

\* (variant: the loop ends as soon as a stop request is recorded)
Draining_IgnoreTasks(stopping, tasks) == ~IsSet(stopping)

\* (variant: the force flag is not looked at)
Draining_IgnoreForce(stopping, tasks) ==
    ~(IsSet(stopping) /\ DOMAIN tasks = {})

\* (variant: without force the loop goes on even when no task is left)
Draining_UntilForce(stopping, tasks) ==
    ~(IsSet(stopping) /\ stopping.force)

\* RPCResponder.main_loop, lines 1011-1012: the loop goes on
Draining(stopping, tasks) ==
    ~(IsSet(stopping) /\ (stopping.force \/ DOMAIN tasks = {}))

\* RPCResponder.main_loop: the while condition is evaluated
RespLoopCheck ==
    /\ respPc = "check"
    /\ IF Draining(respStopping, task_dict)
       THEN /\ respPc' = "get"
            /\ UNCHANGED respExit
       ELSE /\ respPc' = "final"
            /\ respExit' = "cond"
    /\ UNCHANGED <<auxVars, not_completed,
                   respStopping, respResult, mgrVars, mutex, task_dict,
                   result_fifo, worker, stopPc, pipeClosed, histVars>>

\* RPCResponder.main_loop, lines 1013-1014: result = self.result_fifo.get()
RespGet ==
    /\ respPc = "get"
    /\ result_fifo # <<>>
    /\ respResult' = FifoGet(result_fifo).item
    /\ result_fifo' = FifoGet(result_fifo).rest
    /\ respPc' = IF FifoGet(result_fifo).item.kind = "stop"
                 THEN "lock" ELSE "reply"
    /\ UNCHANGED <<auxVars, not_completed,
                   respStopping, respExit, mgrVars, mutex, task_dict, worker,
                   stopPc, pipeClosed, histVars>>

\* (variant: the first stop request recorded is kept)
RespSetStopping_KeepFirst ==
    /\ respPc = "lock"
    /\ mutex = "free"
    /\ respStopping' = IF IsSet(respStopping) THEN respStopping ELSE respResult
    /\ respResult' = None
    /\ respPc' = "check"
    /\ UNCHANGED <<auxVars, not_completed,
                   respExit, mgrVars, mutex, task_dict, result_fifo, worker,
                   stopPc, pipeClosed, histVars>>

\* RPCResponder.main_loop, lines 1015-1017: under the mutex the stop
\* request is recorded
RespSetStopping ==
    /\ respPc = "lock"
    /\ mutex = "free"
    /\ respStopping' = respResult
    /\ respResult' = None
    /\ respPc' = "check"
    /\ UNCHANGED <<auxVars, not_completed,
                   respExit, mgrVars, mutex, task_dict, result_fifo, worker,
                   stopPc, pipeClosed, histVars>>

\* (variant: a task whose publication failed is removed all the same)
RespReply_ForgetOnFailure ==
    /\ respPc = "reply"
    /\ \/ /\ published' = Append(published,
                                <<respResult.task_id, respResult.reply_to>>)
          /\ IF respResult.task_id \in DOMAIN task_dict
             THEN /\ task_dict' = DictDel(task_dict, respResult.task_id)
                  /\ respPc' = "check"
                  /\ respResult' = None
                  /\ UNCHANGED <<respStopping, respExit>>
             ELSE /\ RespBroken("critical")
                  /\ UNCHANGED <<task_dict, respResult>>
       \/ /\ RespBroken("critical")
          /\ task_dict' = DictDel(task_dict, respResult.task_id)
          /\ UNCHANGED <<published, respResult>>
    /\ UNCHANGED <<auxVars, not_completed,
                   mgrVars, mutex, result_fifo, worker, stopPc, pipeClosed,
                   acked, putLog, stopsPut>>

\* RPCResponder.main_loop, lines 1018-1020: reply() publishes the response
\* and the task is deleted from task_dict (a missing key is a KeyError,
\* caught by ServiceThread.main); or reply() fails for good
RespReply ==
    /\ respPc = "reply"
    /\ \/ /\ published' = Append(published,
                                <<respResult.task_id, respResult.reply_to>>)
          /\ IF respResult.task_id \in DOMAIN task_dict
             THEN /\ task_dict' = DictDel(task_dict, respResult.task_id)
                  /\ respPc' = "check"
                  /\ respResult' = None
                  /\ UNCHANGED <<respStopping, respExit>>
             ELSE /\ RespBroken("critical")
                  /\ UNCHANGED <<task_dict, respResult>>
       \/ /\ RespBroken("critical")
          /\ UNCHANGED <<published, task_dict, respResult>>
    /\ UNCHANGED <<auxVars, not_completed,
                   mgrVars, mutex, result_fifo, worker, stopPc, pipeClosed,
                   acked, putLog, stopsPut>>

\* RPCResponder.final_action, lines 1034-1041: the pipe end is closed (this
\* wakes the manager up) and the connection is closed
RespFinalClose ==
    /\ respPc = "final"
    /\ pipeClosed' = TRUE
    /\ respPc' = "snapshot"
    /\ UNCHANGED <<auxVars, not_completed,
                   respStopping, respResult, respExit, mgrVars, mutex,
                   task_dict, result_fifo, worker, stopPc, histVars>>

\* RPCResponder.final_action, lines 1043-1068: the snapshot of the tasks is
\* taken under the mutex; the thread terminates
RespSnapshot ==
    /\ respPc = "snapshot"
    /\ mutex = "free"
    /\ respPc' = "done"
    /\ not_completed' = DOMAIN task_dict
    /\ UNCHANGED <<auxVars, respStopping, respResult, respExit, mgrVars, mutex,
                   task_dict, result_fifo, worker, stopPc, pipeClosed,
                   histVars>>

\* ------------------------------------------------------ the task threads
\* self.task of the task thread made for this id: the task get_and_go
\* recorded under the id, which is the one in task_dict until the
\* responder removes it
TasksOf(id) == {Task(id, r) : r \in ReplyTos}

\* RPCTaskThread.run for the task with this id
WorkerRun(id) ==
    /\ worker[id] = "running"
    /\ \E req \in ServedRequests, task \in TasksOf(id) :
         LET puts == RunPuts(task, req)
         IN  /\ (id \in DOMAIN task_dict => task = task_dict[id])
             /\ result_fifo' = result_fifo \o puts
             /\ putLog' = putLog \o [k \in DOMAIN puts |->
                                       <<puts[k].task_id, puts[k].reply_to>>]
             /\ worker' = [worker EXCEPT
                             ![id] = IF req.encode = "other_error"
                                     THEN "crashed" ELSE "done"]
    /\ UNCHANGED <<auxVars, mgrVars, respVars, mutex, task_dict, stopPc, pipeClosed,
                   acked, stopsPut, published>>

\* --------------------------------------------------- callers of stop()
\* RPCManager.stop, line 928, called from another thread while the manager
\* is alive (AmqpServer.stop, lines 147-154)
StopBegin(i, force) ==
    /\ stopPc[i] = "idle"
    /\ \A j \in StopIds : j < i => stopPc[j] # "idle"
    /\ mgrPc # "done"
    /\ mgrStopping' = Stopping(<<"manual stop">>, "info", force)
    /\ stopPc' = [stopPc EXCEPT ![i] = "put"]
    /\ UNCHANGED <<auxVars, mgrEndVars,
                   mgrPc, mgrTask, task_recorded, task_id_gen, respVars,
                   mutex, task_dict, result_fifo, worker, pipeClosed,
                   histVars>>

\* RPCManager.stop, line 929: self._stop_the_responder(self.stopping)
StopPut(i) ==
    /\ stopPc[i] = "put"
    /\ result_fifo' = FifoPut(result_fifo, ResponderStopping(mgrStopping, FALSE))
    /\ stopsPut' = stopsPut + 1
    /\ stopPc' = [stopPc EXCEPT ![i] = "done"]
    /\ UNCHANGED <<auxVars, mgrVars, respVars, mutex, task_dict, worker, pipeClosed,
                   acked, putLog, published>>

\* ------------------------------------------------------------------ next
Next ==
    \/ MgrStart
    \/ MgrLoopCheck
    \/ \E r \in ReplyTos : MgrDeliver(r)
    \/ MgrRespStopping
    \/ MgrWaitFail
    \/ MgrRecord
    \/ MgrAck
    \/ MgrFinalStop
    \/ MgrJoin
    \/ RespStart
    \/ RespLoopCheck
    \/ RespGet
    \/ RespSetStopping
    \/ RespReply
    \/ RespFinalClose
    \/ RespSnapshot
    \/ \E id \in TaskIds : WorkerRun(id)
    \/ \E i \in StopIds, force \in BOOLEAN : StopBegin(i, force)
    \/ \E i \in StopIds : StopPut(i)

Spec == Init /\ [][Next]_vars

\* The manager thread is scheduled: select() returns once the pipe is
\* readable, and the thread goes on from there
LiveSpec == Spec /\ WF_vars(MgrRespStopping)

\* The two service threads are scheduled: each goes on with its next step
\* whenever it is not blocked (the manager in select() without a frame or
\* a closed pipe, or in join(); the responder in get() on an empty fifo;
\* either of them on the mutex)
MgrRuns ==
    \/ MgrStart
    \/ MgrLoopCheck
    \/ MgrRespStopping
    \/ MgrRecord
    \/ MgrAck
    \/ MgrFinalStop
    \/ MgrJoin

RespRuns ==
    \/ RespStart
    \/ RespLoopCheck
    \/ RespGet
    \/ RespSetStopping
    \/ RespReply
    \/ RespFinalClose
    \/ RespSnapshot

FairSpec == Spec /\ WF_vars(MgrRuns) /\ WF_vars(RespRuns)

\* ----------------------------------------------------------- the restart
\* AmqpServer.start() called again on the server object after the manager
\* thread of the run before has ended (the object is the singleton that
\* configure_and_start and the restart handler use): a new RPCResponder and
\* a new RPCManager are made and started with self.task_dict,
\* self.result_fifo and self.mutex, the objects AmqpServer.__init__ made
\* once; RPCManager.init makes a new pipe and a new itertools.count(1).
\* The restarts followed are those after a stop() call, when the task
\* threads have all ended, no stop() caller is between its two statements
\* and at most MaxLeftover items are on the fifo; what the model keeps
\* about one run only (acked, putLog, stopsPut, published, worker) starts
\* anew.
AmqpServerStart ==
    /\ mgrPc = "done"
    /\ srvStarts < MaxStarts
    /\ \A id \in TaskIds : worker[id] # "running"
    /\ \A i \in StopIds : stopPc[i] # "put"
    /\ \E i \in StopIds : stopPc[i] = "done"
    /\ Len(result_fifo) <= MaxLeftover
    /\ srvStarts' = srvStarts + 1
    /\ mgrPc' = "start"
    /\ mgrStopping' = None
    /\ mgrTask' = None
    /\ task_recorded' = FALSE
    /\ task_id_gen' = 1
    /\ mgrConnected' = FALSE
    /\ finalCallback' = None
    /\ respPc' = "start"
    /\ respStopping' = None
    /\ respResult' = None
    /\ respExit' = "none"
    /\ not_completed' = {}
    /\ pipeClosed' = FALSE
    /\ worker' = [id \in TaskIds |-> "none"]
    /\ acked' = {}
    /\ putLog' = <<>>
    /\ stopsPut' = 0
    /\ published' = <<>>
    /\ UNCHANGED <<task_dict, result_fifo, mutex, stopPc>>
    /\ UNCHANGED <<clientVars, treeVars, taskVars, methodVars, bindVars,
                   growVars, buildVars>>

ServerNext == Next \/ AmqpServerStart

RestartSpec == Init /\ [][ServerNext]_vars

\* ------------------------------------------- one AMQP client thread
\* AMQPClientServiceThread: ServiceThread.main with amqp_init, a main loop
\* that calls a retry-wrapped action, and amqp_close as the final action.
otherThanClient ==
    <<threadVars, serverVars, treeVars, taskVars, methodVars, bindVars,
      growVars, buildVars>>

\* class attributes connect_attempts / try_action_attempts (0: no limit)
ClientConfigs ==
    [try_action_attempts : 0..MaxAttempts, connect_attempts : 0..MaxAttempts]

ClientInit ==
    /\ ThreadsInit
    /\ TreeIdle
    /\ TaskIdle
    /\ MethodIdle
    /\ BindIdle
    /\ GrowIdle
    /\ BuildIdle
    /\ cPc = "connect"
    /\ cCfg \in ClientConfigs
    /\ cReinit = FALSE
    /\ cConnTries = 0
    /\ cAttempt = 0
    /\ cRuns = 0
    /\ cCloses = 0
    /\ cReinits = 0
    /\ cCalls = 0
    /\ cLast = "none"
    /\ cRaised = "none"
    /\ cOpen = 0
    /\ cIsConnected = FALSE
    /\ cStopping = None
    /\ cFinalRan = FALSE

\* _new_amqp_conn, line 398 / retry, line 447: the loop is left after this
\* failed attempt
GivesUp_AtLeast(attempt_nr, attempts) == attempt_nr >= attempts

GivesUp(attempt_nr, attempts) == attempt_nr = attempts

\* (variant: StoppingException is handled like any other exception)
BypassesRetry_Never(exc) == FALSE

\* retry, lines 439-441: the exception is re-raised at once
BypassesRetry(exc) == exc = "StoppingException"

\* retry, lines 448 and 464: err = exc ... raise err
ExhaustedRaises(exc) == exc

\* ServiceThread.main, lines 267-278: the descriptor for an exception that
\* reached main (AMQPError is an EverydayError)
BrokenStopping(exc) ==
    ErrorStopping(IF exc = "AMQPError" THEN "error" ELSE "critical")

\* an exception leaves starting_action or main_loop: the except clause of
\* ServiceThread.main sets the descriptor, final_action is next
CBroken(exc) ==
    /\ cStopping' = BrokenStopping(exc)
    /\ cPc' = "final"

\* an exception leaves amqp_init; inside the retry wrapper it ends the call
CInitRaises(exc) ==
    /\ CBroken(exc)
    /\ cRaised' = IF cReinit THEN exc ELSE cRaised

\* _new_amqp_conn, lines 389-406: one amqp.Connection(...) attempt
CConnectTry ==
    /\ cPc = "connect"
    /\ cConnTries < MaxTries
    /\ \/ /\ cOpen' = cOpen + 1             \* connected
          /\ cPc' = "channel"
          /\ UNCHANGED <<cConnTries, cIsConnected, cStopping, cRaised>>
       \/ /\ cConnTries' = cConnTries + 1   \* Connection() raised
          /\ IF GivesUp(cConnTries + 1, cCfg.connect_attempts)
             THEN /\ cIsConnected' = FALSE
                  /\ CInitRaises("AMQPError")
             ELSE UNCHANGED <<cPc, cIsConnected, cStopping, cRaised>>
          /\ UNCHANGED cOpen
    /\ UNCHANGED <<cCfg, cReinit, cAttempt, cRuns, cCloses, cReinits, cCalls,
                   cLast, cFinalRan, otherThanClient>>

\* AMQPClientServiceThread.amqp_init, lines 376-378: channel(), basic_qos()
\* and then self._is_connected = True
CChannel ==
    /\ cPc = "channel"
    /\ \/ /\ cIsConnected' = TRUE
          /\ cPc' = "declare"
          /\ UNCHANGED <<cStopping, cRaised>>
       \/ /\ CInitRaises("OtherError")      \* channel() or basic_qos() raised
          /\ UNCHANGED cIsConnected
    /\ UNCHANGED <<cCfg, cReinit, cConnTries, cAttempt, cRuns, cCloses,
                   cReinits, cCalls, cLast, cOpen, cFinalRan, otherThanClient>>

\* RPCManager.amqp_init / RPCResponder.amqp_init: the declarations, whose
\* exceptions are raised as AMQPError; amqp_init returns to starting_action
\* or to the retry wrapper
CDeclare ==
    /\ cPc = "declare"
    /\ \/ /\ cPc' = IF cReinit THEN "action" ELSE "loop"
          /\ cReinit' = FALSE
          /\ UNCHANGED <<cStopping, cRaised>>
       \/ /\ CInitRaises("AMQPError")
          /\ UNCHANGED cReinit
    /\ UNCHANGED <<cCfg, cConnTries, cAttempt, cRuns, cCloses, cReinits,
                   cCalls, cLast, cOpen, cIsConnected, cFinalRan,
                   otherThanClient>>

\* main_loop calls a retry-wrapped action (wait_for_msg, reply):
\* attempt_counter = itertools.count(1)
CCall ==
    /\ cPc = "loop"
    /\ cCalls < MaxCalls
    /\ cCalls' = cCalls + 1
    /\ cAttempt' = 0
    /\ cRuns' = 0
    /\ cCloses' = 0
    /\ cReinits' = 0
    /\ cLast' = "none"
    /\ cRaised' = "none"
    /\ cPc' = "action"
    /\ UNCHANGED <<cCfg, cReinit, cConnTries, cOpen, cIsConnected, cStopping,
                   cFinalRan, otherThanClient>>

\* main_loop finds a stop request and returns
CStopRequested ==
    /\ cPc = "loop"
    /\ cStopping' = Stopping(<<"manual stop">>, "info", FALSE)
    /\ cPc' = "final"
    /\ UNCHANGED <<cCfg, cReinit, cConnTries, cAttempt, cRuns, cCloses,
                   cReinits, cCalls, cLast, cRaised, cOpen, cIsConnected,
                   cFinalRan, otherThanClient>>

\* what one run of the action does: it returns, raises a
\* StoppingException (RespStopping), or raises another exception
ActionOutcomes == {"ok", "StoppingException", "ActionError"}

\* retry, lines 435-449: one run of the action inside the wrapper.  A
\* StoppingException leaves the wrapper and main_loop (RPCManager.main_loop
\* lines 791-802); the exception of the last permitted attempt is raised
\* again by line 464 and reaches ServiceThread.main
CActionRun ==
    /\ cPc = "action"
    /\ cRuns < MaxTries
    /\ cRuns' = cRuns + 1
    /\ \E out \in ActionOutcomes :
         /\ cLast' = out
         /\ IF out = "ok"
            THEN /\ cPc' = "loop"
                 /\ UNCHANGED <<cAttempt, cRaised, cStopping>>
            ELSE IF BypassesRetry(out)
            THEN /\ cRaised' = out
                 /\ cStopping' =
                       AfterLoopStopping(None,
                           Stopping(<<"manual stop">>, "info", FALSE))
                 /\ cPc' = "final"
                 /\ UNCHANGED cAttempt
            ELSE /\ cAttempt' = cAttempt + 1
                 /\ IF GivesUp(cAttempt + 1, cCfg.try_action_attempts)
                    THEN /\ cRaised' = ExhaustedRaises(out)
                         /\ CBroken(ExhaustedRaises(out))
                    ELSE /\ cPc' = "reinit"
                         /\ UNCHANGED <<cRaised, cStopping>>
    /\ UNCHANGED <<cCfg, cReinit, cConnTries, cCloses, cReinits, cCalls,
                   cOpen, cIsConnected, cFinalRan, otherThanClient>>

\* amqp_close, lines 409-424, on the connection flag and the open
\* connections
AmqpCloseOpen(open, is_connected) == IF is_connected THEN open - 1 ELSE open

\* retry, lines 450-454: amqp_close(), sleep, and amqp_init() begins
CReinit ==
    /\ cPc = "reinit"
    /\ cOpen' = AmqpCloseOpen(cOpen, cIsConnected)
    /\ cIsConnected' = FALSE
    /\ cCloses' = cCloses + 1
    /\ cReinits' = cReinits + 1
    /\ cReinit' = TRUE
    /\ cConnTries' = 0
    /\ cPc' = "connect"
    /\ UNCHANGED <<cCfg, cAttempt, cRuns, cCalls, cLast, cRaised, cStopping,
                   cFinalRan, otherThanClient>>

\* ServiceThread.main, the outer finally: final_action (amqp_close); the
\* thread terminates
CFinal ==
    /\ cPc = "final"
    /\ cOpen' = AmqpCloseOpen(cOpen, cIsConnected)
    /\ cIsConnected' = FALSE
    /\ cFinalRan' = TRUE
    /\ cPc' = "done"
    /\ UNCHANGED <<cCfg, cReinit, cConnTries, cAttempt, cRuns, cCloses,
                   cReinits, cCalls, cLast, cRaised, cStopping,
                   otherThanClient>>

ClientNext ==
    \/ CConnectTry
    \/ CChannel
    \/ CDeclare
    \/ CCall
    \/ CStopRequested
    \/ CActionRun
    \/ CReinit
    \/ CFinal

ClientSpec == ClientInit /\ [][ClientNext]_vars

\* ------------------------------------------------------- derived notions
\* task ids that were ever stored in task_dict (get_and_go starts the task
\* thread in the same critical section)
recorded == {id \in TaskIds : worker[id] # "none"}

\* deliveries for which get_and_go returned without recording a task
refused ==
    {id \in TaskIds : /\ id < task_id_gen
                      /\ worker[id] = "none"
                      /\ (mgrTask = None \/ mgrTask.id # id)}

\* number of Results with this task id ever put on result_fifo
PutCount(id) == Cardinality({k \in DOMAIN putLog : putLog[k][1] = id})

PublishedIds == {published[k][1] : k \in DOMAIN published}

\* task ids of the Results waiting on result_fifo
QueuedIds ==
    {result_fifo[k].task_id :
        k \in {j \in DOMAIN result_fifo : result_fifo[j].kind = "result"}}

\* the task is visible outside task_dict: its thread runs, or its Result
\* waits on the fifo or is in the responder's hands
Observable(id) ==
    \/ worker[id] = "running"
    \/ id \in QueuedIds
    \/ respResult # None /\ respResult.kind = "result" /\ respResult.task_id = id

IsPrefix(a, b) ==
    /\ Len(a) <= Len(b)
    /\ \A k \in DOMAIN a : a[k] = b[k]

\* ---------------------------------------------------------------- claims

\* run() on every task and every request whose response can be built,
\* whatever stage failed: exactly one Result is put, carrying the task's id
RunPutsOneResult ==
    \A id \in TaskIds : \A r \in ReplyTos : \A req \in Requests :
        req.encode # "other_error" =>
           LET puts == RunPuts(Task(id, r), req)
           IN  /\ Len(puts) = 1
               /\ puts[1].kind = "result"
               /\ puts[1].task_id = id

\* C1: every task the manager recorded and acked whose thread finished
\* without reaching its outer except clause has exactly one Result with its
\* id on the fifo log (a crashed or unfinished thread has none); and on
\* every request whose response can be built, whether decoding, lookup,
\* invocation or serialization succeeds or fails, run() puts exactly one
\* Result, carrying the id of its task.
C1_ExactlyOneResult ==
    /\ \A id \in TaskIds :
          PutCount(id) = (IF worker[id] = "done" THEN 1 ELSE 0)
    /\ acked \subseteq {id \in TaskIds : worker[id] # "none"}
    /\ RunPutsOneResult

C1_Witness ==
    \E id \in acked : worker[id] = "done" /\ PutCount(id) = 1

\* C2: when the responder has left main_loop through the loop condition on
\* a stop request without force, the in-flight map is empty and every task
\* ever recorded has been published, from then on until and after the
\* thread's termination.
C2_DrainedBeforeExit ==
    (respExit = "cond" /\ ~respStopping.force) =>
        /\ DOMAIN task_dict = {}
        /\ recorded \subseteq PublishedIds

C2_Witness ==
    /\ respPc = "done"
    /\ respExit = "cond"
    /\ ~respStopping.force
    /\ Len(published) = MaxMsgs

\* C3 (as claimed): once the responder's stopping descriptor is set, no
\* further task is recorded, no further task thread is started, and no
\* refused delivery is acked.
C3_NoTaskAfterStopping ==
    [][ /\ IsSet(respStopping) =>
              /\ recorded' = recorded
              /\ DOMAIN task_dict' \subseteq DOMAIN task_dict
        /\ refused' \cap acked' = {} ]_vars

\* C4: a delivery is acked only when its task is already recorded, and a
\* refused delivery is never acked.
C4_AckAfterRecord ==
    /\ acked \subseteq recorded
    /\ refused \cap acked = {}

C4_Witness ==
    \E id \in acked : id \in recorded /\ refused # {}

\* C5 (as claimed): a task that is observable outside the in-flight map
\* belongs to a delivery already acked.
C5_ObservableOnlyAcked ==
    \A id \in TaskIds : Observable(id) => id \in acked

\* C6 (as claimed): the responder writes its stopping descriptor and
\* removes tasks only while it holds the mutex, so never while the manager
\* is inside its check-then-record section.
C6_WritesUnderMutex ==
    [][ (respStopping' # respStopping
         \/ ~(DOMAIN task_dict \subseteq DOMAIN task_dict'))
        => mutex # "mgr" ]_vars

\* C7 (as claimed): at most one stop request is ever put on the fifo.
C7_AtMostOneSentinel == stopsPut <= 1

\* C7 (amended): every stop() call puts one stop request and the manager
\* thread puts at most one more, in its final action and only when it finds
\* the responder's stopping descriptor unset.
C7_SentinelsBounded ==
    /\ [](stopsPut - Cardinality({i \in StopIds : stopPc[i] = "done"})
             \in (IF mgrPc \in {"join", "done"} THEN {0, 1} ELSE {0}))
    /\ [][ (mgrPc = "final" /\ mgrPc' = "join" /\ stopsPut' > stopsPut)
           => ~IsSet(respStopping) ]_vars

C7_Witness ==
    /\ stopsPut = 2
    /\ \E i \in StopIds : stopPc[i] = "done"
    /\ mgrPc \in {"join", "done"}

\* C8: the Results are published in the order in which they were put on
\* the fifo (so also for any two Results with the same reply_to).
C8_PublishedInPutOrder == IsPrefix(published, putLog)

C8_Witness ==
    /\ Len(published) >= 2
    /\ published[1][2] = published[2][2]

\* C9: once the responder has recorded a stop request with force set, it
\* publishes nothing more and removes no task.
C9_ForceStopsPublishing ==
    [][ (IsSet(respStopping) /\ respStopping.force)
        => /\ published' = published
           /\ DOMAIN task_dict \subseteq DOMAIN task_dict' ]_vars

C9_Witness ==
    /\ respPc = "done"
    /\ respStopping.force
    /\ QueuedIds # {}
    /\ DOMAIN task_dict # {}

\* C10: the responder waits for the next item exactly when its stopping
\* descriptor is unset, or set without force with tasks in flight; it has
\* left the loop through the loop condition exactly in the other states;
\* an item it is about to publish is never a stop request, and a stop
\* request it has taken is what it records as its stopping descriptor.
C10_DrainingPolicy ==
    /\ [](/\ respPc = "get" =>
              \/ respStopping = None
              \/ ~respStopping.force /\ DOMAIN task_dict # {}
          /\ respExit = "cond" =>
              /\ respStopping # None
              /\ respStopping.force \/ DOMAIN task_dict = {}
          /\ respPc = "reply" => respResult.kind = "result"
          /\ respPc = "lock" => respResult.kind = "stop")
    /\ [][ (respPc = "lock" /\ respPc' # "lock")
           => respStopping' = respResult ]_vars

C10_Witness ==
    /\ respPc = "get"
    /\ respStopping # None
    /\ ~respStopping.force
    /\ DOMAIN task_dict # {}

C12_CallbackOnce ==
    /\ mgrPc # "done" => finalCallback = None
    /\ mgrPc = "done" =>
          /\ finalCallback # None
          /\ finalCallback.kind \in {"one_arg", "no_arg"}
                => finalCallback.runs = 1
    /\ \A kind \in {"one_arg", "no_arg"} :
          \A outcome \in FinalCallbackOutcomes :
             FinalCallbackRuns(kind, outcome) = 1

C12_Witness ==
    /\ mgrPc = "done"
    /\ finalCallback = [kind |-> "no_arg", runs |-> 1]

\* C14: a task leaves the in-flight map only in the responder's step that
\* has published its response; a task whose publication failed for good is
\* still in the map and is in the snapshot of not completed tasks taken at
\* the responder's exit.
C14_RemovedAfterPublished ==
    /\ [][ \A id \in (DOMAIN task_dict) \ (DOMAIN task_dict') :
              /\ respPc = "reply"
              /\ respResult.task_id = id
              /\ published' = Append(published, <<id, respResult.reply_to>>)
         ]_vars
    /\ []((respExit = "error" /\ respResult # None) =>
            /\ respResult.task_id \in DOMAIN task_dict
            /\ respPc = "done" => respResult.task_id \in not_completed)

C14_Witness ==
    /\ respPc = "done"
    /\ respExit = "error"
    /\ respResult # None
    /\ respResult.task_id \in not_completed
    /\ published # <<>>

\* C13: when the responder has terminated while the manager waits for a
\* broker frame, the manager reaches its final action without any further
\* delivery; the step that takes it there is taken once (the wait is not
\* retried) and leaves the manager with its own stop request or with the
\* responder's descriptor marked as requested by the responder, not with
\* a descriptor of a manager error.
C13_PipeWakesManager ==
    /\ (respPc = "done" /\ mgrPc = "wait")
          ~> (mgrPc \in {"final", "join", "done"})
    /\ [][ MgrRespStopping =>
             /\ mgrPc' = "final"
             /\ task_id_gen' = task_id_gen
             /\ \/ IsSet(mgrStopping) /\ mgrStopping' = mgrStopping
                \/ /\ ~IsSet(mgrStopping)
                   /\ mgrStopping'.reason[1] = RESP_REASON_PREFIX
                   /\ mgrStopping'.loglevel = respStopping.loglevel ]_vars

C13_Witness ==
    /\ mgrPc = "final"
    /\ respPc = "done"
    /\ pipeClosed
    /\ mgrStopping.reason[1] = RESP_REASON_PREFIX
    /\ task_id_gen = 1

\* the tasks whose thread ended without putting a Result
Crashed == {id \in TaskIds : worker[id] = "crashed"}

\* the responder is in main_loop
InMainLoop == respPc \in {"check", "get", "lock", "reply"}

\* C37 (as claimed): once a task thread has ended without putting a Result,
\* the responder that has recorded a stop request leaves its main loop
\* only when that request has force set; otherwise it stays in the loop
\* with the task in task_dict, the manager does not get past its join and
\* the final callback is not called.
C37_StopNeverCompletes ==
    /\ [](Crashed \subseteq DOMAIN task_dict)
    /\ [][ (/\ Crashed # {} /\ InMainLoop
            /\ IsSet(respStopping) /\ respPc' = "final")
           => respStopping.force ]_vars
    /\ []((Crashed # {} /\ InMainLoop)
            => (mgrPc # "done" /\ finalCallback = None))

\* C37 (amended): once a task thread has ended without putting a Result,
\* the task stays in task_dict and the responder leaves its main loop only
\* under a stop request with force or through an error of its own (the
\* Result of another task could not be published); as long as neither
\* happens the manager does not get past its join and the final callback
\* is not called.
C37_CrashBlocksUnforcedStop ==
    /\ [](Crashed \subseteq DOMAIN task_dict)
    /\ [][ (Crashed # {} /\ InMainLoop /\ respPc' = "final")
           => \/ IsSet(respStopping) /\ respStopping.force
              \/ respExit' = "error" ]_vars
    /\ []((Crashed # {} /\ InMainLoop)
            => (mgrPc # "done" /\ finalCallback = None))

\* a task thread ended without a Result and a stop without force was
\* requested: the responder waits on the empty fifo with the task in
\* task_dict, the manager waits in join, no other thread has a step left
C37_Witness ==
    /\ Crashed # {}
    /\ respPc = "get"
    /\ result_fifo = <<>>
    /\ IsSet(respStopping)
    /\ ~respStopping.force
    /\ mgrPc = "join"
    /\ finalCallback = None
    /\ \A id \in TaskIds : worker[id] # "running"
    /\ \A i \in StopIds : stopPc[i] = "done"

\* a stop request with force set waits on the fifo
ForcedStopQueued ==
    \E k \in DOMAIN result_fifo :
        result_fifo[k].kind = "stop" /\ result_fifo[k].force

\* the responder has recorded a stop request without force and waits for
\* the Results of the tasks in flight
WaitsForResults ==
    /\ respPc = "get"
    /\ IsSet(respStopping)
    /\ ~respStopping.force
    /\ DOMAIN task_dict # {}

\* C40: when a stop request with force follows one without force while the
\* responder waits for the Results of unfinished tasks, the responder
\* records the forced descriptor when it reads it, leaves its loop at the
\* next evaluation of the loop condition without taking another item, and
\* both the responder and the manager terminate.
C40_ForcedStopEndsTheWait ==
    /\ [][ (respPc = "lock" /\ respPc' # "lock" /\ respResult.force)
           => (respStopping' = respResult /\ respPc' = "check") ]_vars
    /\ [][ (/\ respPc = "check" /\ respPc' # "check"
            /\ IsSet(respStopping) /\ respStopping.force)
           => (/\ respPc' = "final"
               /\ respExit' = "cond"
               /\ result_fifo' = result_fifo
               /\ DOMAIN task_dict' = DOMAIN task_dict) ]_vars
    /\ (WaitsForResults /\ ForcedStopQueued)
          ~> (respPc = "done" /\ mgrPc = "done")

\* the responder, waiting under a stop request without force for a task
\* whose thread still runs, has taken a forced stop request from the fifo
C40_Witness ==
    /\ respPc = "lock"
    /\ respResult.force
    /\ IsSet(respStopping)
    /\ ~respStopping.force
    /\ \E id \in DOMAIN task_dict : worker[id] = "running"
    /\ \A i \in StopIds : stopPc[i] = "done"

\* C38 (as claimed): when the server is started again, the new manager and
\* responder begin with an empty task_dict and an empty result_fifo, and
\* no task is recorded under an id that is in task_dict.
C38_FreshRun ==
    /\ [][ srvStarts' # srvStarts
            => (DOMAIN task_dict' = {} /\ Len(result_fifo') = 0) ]_vars
    /\ [][ (mgrPc = "gg_record" /\ mgrPc' = "gg_ack")
            => mgrTask.id \notin DOMAIN task_dict ]_vars

\* C39 (as claimed): a Result the responder has taken from the fifo has its
\* task in task_dict, no task id is published and removed twice, and a task
\* is recorded under an id larger than the ids recorded before it in the
\* manager's run.
C39_ResultHasItsTask ==
    /\ [](respPc = "reply" => respResult.task_id \in DOMAIN task_dict)
    /\ [](\A j, k \in DOMAIN published :
             published[j][1] = published[k][1] => j = k)
    /\ [][ (mgrPc = "gg_record" /\ mgrPc' = "gg_ack")
            => \A id \in recorded : id < mgrTask.id ]_vars

\* C15: a run of the action that raises StoppingException ends the
\* wrapper call with that exception in the same step: no amqp_close, no
\* amqp_init, no change of the connection, no further run of the action,
\* and the count of failed attempts is neither consulted nor changed.
C15_StoppingBypassesRetry ==
    /\ [][ (cRuns' = cRuns + 1 /\ cLast' = "StoppingException") =>
             /\ cRaised' = "StoppingException"
             /\ cPc' = "final"
             /\ cCloses' = cCloses
             /\ cReinits' = cReinits
             /\ cAttempt' = cAttempt
             /\ cOpen' = cOpen
             /\ cIsConnected' = cIsConnected ]_vars
    /\ [](cRaised = "StoppingException" =>
             /\ cPc \in {"final", "done"}
             /\ cLast = "StoppingException"
             /\ cRuns = cAttempt + 1)

C15_Witness ==
    /\ cRaised = "StoppingException"
    /\ cAttempt >= 1
    /\ cCfg.try_action_attempts = cAttempt + 1

\* C16 (as claimed): when the action has failed on every permitted
\* attempt, the wrapper call ends with AMQPError and the thread's stopping
\* descriptor has loglevel 'error' and force false.
C16_ExhaustionRaisesAMQPError ==
    (/\ cPc \in {"final", "done"}
     /\ cLast = "ActionError"
     /\ cAttempt >= 1
     /\ cAttempt = cCfg.try_action_attempts)
    => /\ cRaised = "AMQPError"
       /\ cStopping = Stopping(cStopping.reason, "error", FALSE)

\* C17: with try_action_attempts >= 1 an action that keeps failing is run
\* that many times and no more, with one amqp_close and one amqp_init
\* between consecutive runs; with 0 the wrapper never gives up; a
\* connection is tried at most connect_attempts times (never given up with
\* 0); and after a failed amqp_init the action is not run again.
C17_AttemptCounts ==
    LET t == cCfg.try_action_attempts
        c == cCfg.connect_attempts
    IN  cPc # "idle" =>
          /\ t >= 1 => cRuns <= t
          /\ cRaised = "ActionError" =>
                /\ t >= 1
                /\ cRuns = t
                /\ cCloses = t - 1
                /\ cReinits = t - 1
          /\ cPc = "action" =>
                /\ cCloses = cRuns
                /\ cReinits = cRuns
                /\ cAttempt = cRuns
          /\ c >= 1 => cConnTries <= c
          /\ (c >= 1 /\ cConnTries = c) => cPc \in {"final", "done"}
          /\ cPc = "connect" => (c = 0 \/ cConnTries < c)
          /\ cRaised \in {"AMQPError", "OtherError"} =>
                /\ cPc \in {"final", "done"}
                /\ cRuns = cReinits
                /\ cLast = "ActionError"

C17_Witness ==
    /\ cCfg.try_action_attempts = MaxAttempts
    /\ cRaised = "ActionError"
    /\ cRuns = MaxAttempts
    /\ cCloses = MaxAttempts - 1
    /\ cPc = "done"

\* C18 (as claimed): the final action has run when the thread has
\* terminated, whatever the exit path, and no connection opened by the
\* thread is still open then.
C18_NothingLeftOpen ==
    cPc = "done" => (cFinalRan /\ cOpen = 0 /\ ~cIsConnected)

\* ------------------------------------------- the RPC tree and its access
\* RPCTree over a fixed tree.  A full name is the tuple of its local names
\* (split_name): <<"system", "list">> is 'system.list', <<>> is ''.
RPCModules == {<<>>, <<"priv">>, <<"priv", "sub">>, <<"system">>}
RPCMethods == {<<"priv", "run">>, <<"priv", "sub", "do">>,
               <<"system", "help">>, <<"system", "list">>}

\* RPCTree._item_dict: the full names present in the tree
item_dict == RPCModules \cup RPCMethods

\* names a request can carry that the tree does not hold
AbsentNames == {<<"ghost">>, <<"priv", "ghost">>}
FullNames == item_dict \cup AbsentNames

\* RPCModule.loc_names2methods / loc_names2submods: sorted local names
loc_names2methods(m) ==
    CASE m = <<"priv">> -> <<"run">>
      [] m = <<"priv", "sub">> -> <<"do">>
      [] m = <<"system">> -> <<"help", "list">>
      [] OTHER -> <<>>

loc_names2submods(m) ==
    CASE m = <<>> -> <<"priv", "system">>
      [] m = <<"priv">> -> <<"sub">>
      [] OTHER -> <<>>

loc_names2all(m) == loc_names2methods(m) \o loc_names2submods(m)

iter_prefixed_items(prefix, items) ==
    [i \in 1..Len(items) |-> Append(prefix, items[i])]

\* RPCTree._iter_subtree: this module (below the top), its methods, then
\* every submodule's subtree
RECURSIVE iter_subtree(_, _)
iter_subtree(rpc_module, include_this_module) ==
    LET submods == loc_names2submods(rpc_module)
        RECURSIVE subiter(_)
        subiter(i) ==
            IF i > Len(submods) THEN <<>>
            ELSE iter_subtree(Append(rpc_module, submods[i]), TRUE)
                     \o subiter(i + 1)
        with_this_module ==
            IF include_this_module THEN <<rpc_module>> ELSE <<>>
        with_methods ==
            iter_prefixed_items(rpc_module, loc_names2methods(rpc_module))
    IN  with_this_module \o with_methods \o subiter(1)

\* RPCTree._get_rpc_mod: what looking the module up raises
get_rpc_mod(full_name) ==
    IF full_name \notin item_dict THEN "KeyError"
    ELSE IF full_name \notin RPCModules THEN "TypeError"
    ELSE "none"

\* RPCTree.all_items, for a full_name that _get_rpc_mod accepts
all_items(full_name, deep) ==
    IF deep THEN iter_subtree(full_name, FALSE)
    ELSE iter_prefixed_items(full_name, loc_names2all(full_name))

\* Access patterns.  A pattern is a sequence of parts: a literal token, or
\* a replacement field {name}.  Texts are sequences of tokens: a local
\* name, the dot, or a word of the pattern; in a keyhole "^" anchors the
\* search at the start and "\\." stands for the dot.
Lit(v) == [kind |-> "lit", v |-> v]
Field(v) == [kind |-> "field", v |-> v]

\* the fields of actual_access_dict that the patterns here use; "nofield"
\* is a name the dict does not have
AccessFields == {"full_name", "local_name", "parentmod_name"}

KeyPatterns ==
    {<<>>, <<Field("full_name")>>, <<Field("local_name")>>, <<Lit("yes")>>,
     <<Field("nofield")>>}

KeyholePatterns ==
    {<<>>, <<Lit("^"), Lit("system"), Lit("\\.")>>, <<Lit("priv")>>,
     <<Lit("sub")>>, <<Lit("no!")>>, <<Field("nofield")>>}

\* A binding's access policy: BindingProps.access_key_patt and
\* access_keyhole_patt
Bindings == [access_key_patt : KeyPatterns,
             access_keyhole_patt : KeyholePatterns]

RequiredTypes == {"None", "RPCMethod"}

\* '.'.join(split_name)
RECURSIVE Dotted(_)
Dotted(split_name) ==
    IF Len(split_name) <= 1 THEN split_name
    ELSE <<Head(split_name), ".">> \o Dotted(Tail(split_name))

\* actual_access_dict[field] for the item named; ''.split('.') is ['']
actual_access_dict(full_name, field) ==
    CASE field = "full_name" -> Dotted(full_name)
      [] field = "local_name" ->
            IF full_name = <<>> THEN <<>>
            ELSE <<full_name[Len(full_name)]>>
      [] field = "parentmod_name" ->
            IF full_name = <<>> THEN <<>>
            ELSE Dotted(SubSeq(full_name, 1, Len(full_name) - 1))

\* patt.format(**actual_access_dict): KeyError at the first field the dict
\* does not have
RECURSIVE Format(_, _)
Format(patt, full_name) ==
    IF patt = <<>> THEN [raised |-> "none", text |-> <<>>]
    ELSE LET part == Head(patt)
             rest == Format(Tail(patt), full_name)
         IN  IF part.kind = "field" /\ part.v \notin AccessFields
             THEN [raised |-> "KeyError", text |-> <<>>]
             ELSE IF rest.raised # "none" THEN rest
             ELSE [raised |-> "none",
                   text |-> (IF part.kind = "lit" THEN <<part.v>>
                             ELSE actual_access_dict(full_name, part.v))
                                \o rest.text]

\* one token of the regular expression against one token of the string
TokenMatches(r, k) == IF r = "\\." THEN k = "." ELSE r = k

\* the regular expression matches the string at position i
MatchesAt(regex, string, i) ==
    /\ i + Len(regex) - 1 <= Len(string)
    /\ \A j \in 1..Len(regex) : TokenMatches(regex[j], string[i + j - 1])

\* a variant that tries the start of the string only (re.match)
re_search_StartOnly(pattern, string) ==
    LET anchored == pattern # <<>> /\ Head(pattern) = "^"
        regex == IF anchored THEN Tail(pattern) ELSE pattern
    IN  MatchesAt(regex, string, 1)

\* re.search(pattern, string): the first position the pattern matches at,
\* scanning from the left; an anchored pattern is tried at the start only
re_search(pattern, string) ==
    LET anchored == pattern # <<>> /\ Head(pattern) = "^"
        regex == IF anchored THEN Tail(pattern) ELSE pattern
        RECURSIVE Scan(_)
        Scan(i) ==
            IF i > Len(string) + 1 THEN FALSE
            ELSE IF MatchesAt(regex, string, i) THEN TRUE
            ELSE IF anchored THEN FALSE
            ELSE Scan(i + 1)
    IN  Scan(1)

\* a variant that takes a pattern that does not format for a denial
check_access_BadPatternDenies(full_name, binding, required_type) ==
    LET access_key == Format(binding.access_key_patt, full_name)
        access_keyhole == Format(binding.access_keyhole_patt, full_name)
    IN  IF required_type = "RPCMethod" /\ full_name \notin RPCMethods
        THEN "TypeError"
        ELSE IF access_key.raised # "none" THEN "False"
        ELSE IF access_keyhole.raised # "none" THEN "False"
        ELSE IF re_search(access_keyhole.text, access_key.text) THEN "True"
        ELSE "False"

\* RPCTree.check_access: the type test comes first, then the key pattern
\* and the keyhole pattern are formatted, then the key is searched for the
\* keyhole
check_access(full_name, binding, required_type) ==
    LET access_key == Format(binding.access_key_patt, full_name)
        access_keyhole == Format(binding.access_keyhole_patt, full_name)
    IN  IF required_type = "RPCMethod" /\ full_name \notin RPCMethods
        THEN "TypeError"
        ELSE IF access_key.raised # "none" THEN "BadAccessPatternError"
        ELSE IF access_keyhole.raised # "none" THEN "BadAccessPatternError"
        ELSE IF re_search(access_keyhole.text, access_key.text) THEN "True"
        ELSE "False"

RPCNotFoundError(form, arg) ==
    [name |-> "RPCNotFoundError", form |-> form, arg |-> arg]

RPCInternalServerError ==
    [name |-> "RPCInternalServerError", form |-> "Internal server error",
     arg |-> None]

\* RPCTree.try_to_obtain: the exception it raises, or None
try_to_obtain(full_name, binding, required_type) ==
    IF full_name \notin item_dict
    THEN RPCNotFoundError("RPC-name not found: {0}", full_name)
    ELSE LET access == check_access(full_name, binding, required_type)
         IN  CASE access = "True" -> None
               [] access = "False" ->
                    RPCNotFoundError("RPC-name not found: {0}", full_name)
               [] access = "TypeError" ->
                    RPCNotFoundError("Bad RPC-object type ({0} required)",
                                     required_type)
               [] OTHER -> [name |-> "BadAccessPatternError",
                            form |-> "access pattern", arg |-> None]

\* a run of one of the generators of sysmethods: what it raised, and the
\* items it yielded
Yielded(out) == [raised |-> None, out |-> out]
Raised(exc) == [raised |-> exc, out |-> <<>>]

RECURSIVE SelectAdmitted(_, _)
SelectAdmitted(items, binding) ==
    IF items = <<>> THEN <<>>
    ELSE (IF check_access(Head(items), binding, "None") = "True"
          THEN <<Head(items)>> ELSE <<>>)
             \o SelectAdmitted(Tail(items), binding)

\* sysmethods._iter_mod_subitems
iter_mod_subitems(module_name, deep, binding) ==
    IF get_rpc_mod(module_name) # "none"
    THEN Raised([name |-> get_rpc_mod(module_name),
                 form |-> "lookup", arg |-> None])
    ELSE LET items == all_items(module_name, deep)
         IN  IF \E i \in DOMAIN items :
                    check_access(items[i], binding, "None")
                        = "BadAccessPatternError"
             THEN Raised([name |-> "BadAccessPatternError",
                          form |-> "access pattern", arg |-> None])
             ELSE Yielded(SelectAdmitted(items, binding))

\* name + getattr(obj, 'formatted_arg_spec', '')
Signature(name) == [name |-> name, arg_spec |-> name \in RPCMethods]

\* sysmethods._iter_signatures consumed by list: the argument first, as it
\* came, then the signatures of the accessible subitems
iter_signatures(module_name, deep, binding) ==
    LET subitems == iter_mod_subitems(module_name, deep, binding)
    IN  IF subitems.raised # None THEN subitems
        ELSE Yielded(<<[name |-> module_name, arg_spec |-> FALSE]>>
                     \o [i \in 1..Len(subitems.out) |->
                            Signature(subitems.out[i])])

\* obj.__doc__ of the object named
Doc(name) == [doc_of |-> name]

\* sysmethods._iter_help_texts consumed by help
iter_help_texts(name, deep, binding) ==
    LET exc == try_to_obtain(name, binding, "None")
        subitems == iter_mod_subitems(name, deep, binding)
    IN  IF exc # None THEN Raised(exc)
        ELSE IF name \in RPCMethods THEN Yielded(<<Doc(name)>>)
        ELSE IF subitems.raised # None THEN subitems
        ELSE Yielded([i \in 1..Len(subitems.out) + 1 |->
                         IF i = 1 THEN Doc(name)
                         ELSE Doc(subitems.out[i - 1])])

SYS_LIST == <<"system", "list">>
SYS_HELP == <<"system", "help">>

\* the call of the procedure: the system procedures as sysmethods defines
\* them, any other procedure returns a value of its own
CallMethod(request, binding) ==
    CASE request.method = SYS_LIST ->
            iter_signatures(request.params.module_name,
                            request.params.deep, binding)
      [] request.method = SYS_HELP ->
            iter_help_texts(request.params.module_name,
                            request.params.deep, binding)
      [] OTHER -> Yielded(<<"returned">>)

Response(result, error) == [result |-> result, error |-> error]

\* RPCTaskThread.run from the deserialized request to response_dict
TaskRun(request, binding) ==
    LET exc == try_to_obtain(request.method, binding, "RPCMethod")
        call == CallMethod(request, binding)
    IN  IF exc # None
        THEN IF exc.name = "RPCNotFoundError" THEN Response(None, exc)
             ELSE Response(None, RPCInternalServerError)
        ELSE IF call.raised # None
             THEN Response(None, RPCInternalServerError)
             ELSE Response(call.out, None)

\* requests with well-formed params for the procedure they name
Params(method, module_name, deep) ==
    IF method \in {SYS_LIST, SYS_HELP}
    THEN [module_name |-> module_name, deep |-> deep]
    ELSE None

TreeInit ==
    /\ ThreadsInit
    /\ ClientIdle
    /\ TaskIdle
    /\ MethodIdle
    /\ BindIdle
    /\ GrowIdle
    /\ BuildIdle
    /\ tPc = "idle"
    /\ tBinding \in Bindings
    /\ tRequest = None
    /\ tResponse = None

otherThanTree ==
    <<threadVars, serverVars, clientVars, taskVars, methodVars, bindVars,
      growVars, buildVars>>

\* RPCManager.get_and_go: a request arrives by the binding, a task thread
\* is started for it
TSubmit ==
    /\ tPc = "idle"
    /\ \E method \in FullNames, module_name \in FullNames, deep \in BOOLEAN :
          tRequest' = [method |-> method,
                       params |-> Params(method, module_name, deep)]
    /\ tPc' = "task"
    /\ UNCHANGED <<tBinding, tResponse, otherThanTree>>

TRun ==
    /\ tPc = "task"
    /\ tResponse' = TaskRun(tRequest, tBinding)
    /\ tPc' = "done"
    /\ UNCHANGED <<tBinding, tRequest, otherThanTree>>

\* the response has been sent, the next request can come
TReplied ==
    /\ tPc = "done"
    /\ tPc' = "idle"
    /\ tRequest' = None
    /\ tResponse' = None
    /\ UNCHANGED <<tBinding, otherThanTree>>

TreeNext == TSubmit \/ TRun \/ TReplied

TreeSpec == TreeInit /\ [][TreeNext]_vars

\* C19 (as claimed): a request naming an object the binding denies and
\* the same request naming something absent get responses with the same
\* error name, RPCNotFoundError, and messages of the same form.
C19_AbsentDeniedAlike ==
    (/\ tPc = "done"
     /\ tRequest.method \in item_dict
     /\ check_access(tRequest.method, tBinding, "None") = "False") =>
        \A absent \in AbsentNames :
            LET other == TaskRun([tRequest EXCEPT !.method = absent],
                                 tBinding)
            IN  /\ tResponse.error # None
                /\ other.error # None
                /\ tResponse.error.name = "RPCNotFoundError"
                /\ other.error.name = "RPCNotFoundError"
                /\ tResponse.error.form = other.error.form

\* the names a returned listing or help output holds
OutputNames(response, method) ==
    IF method = SYS_LIST
    THEN {response.result[i].name : i \in DOMAIN response.result}
    ELSE {response.result[i].doc_of : i \in DOMAIN response.result}

\* the subtree a call asks for: the argument and what lies below it, one
\* level down or, with deep, at any depth
IsBelow(n, top) ==
    /\ Len(n) > Len(top)
    /\ SubSeq(n, 1, Len(top)) = top

RequestedSubtree(top, deep) ==
    {n \in item_dict : \/ n = top
                       \/ IsBelow(n, top) /\ (deep \/ Len(n) = Len(top) + 1)}

\* C20 (as claimed): the output of list and of help holds exactly the
\* names of the requested subtree that the binding admits, the argument
\* itself included.
C20_ListHelpFiltered ==
    (/\ tPc = "done"
     /\ tRequest.method \in {SYS_LIST, SYS_HELP}
     /\ tResponse.error = None) =>
        OutputNames(tResponse, tRequest.method) =
            {n \in RequestedSubtree(tRequest.params.module_name,
                                    tRequest.params.deep) :
                check_access(n, tBinding, "None") = "True"}

\* a pattern with a replacement field that the access context lacks
HasUnknownField(patt) ==
    \E i \in DOMAIN patt :
        patt[i].kind = "field" /\ patt[i].v \notin AccessFields

\* the object named has the required type, when one is required
HasRequiredType(full_name, required_type) ==
    required_type = "None" \/ full_name \in RPCMethods

FoundIn(access_keyhole, access_key) ==
    LET anchored == access_keyhole # <<>> /\ Head(access_keyhole) = "^"
        regex == IF anchored THEN Tail(access_keyhole) ELSE access_keyhole
        starts == IF anchored THEN {1} ELSE 1..(Len(access_key) + 1)
    IN  \E i \in starts :
            /\ i + Len(regex) - 1 <= Len(access_key)
            /\ \A j \in 1..Len(regex) :
                  \/ regex[j] = access_key[i + j - 1]
                  \/ regex[j] = "\\." /\ access_key[i + j - 1] = "."

\* C29: under patterns that format, try_to_obtain returns the object bound
\* to a full name exactly when the name is in the tree, the object has the
\* required type when one is required, and the rendered keyhole is found,
\* as a regular expression, in the rendered key; in every other case it
\* raises RPCNotFoundError.  Empty key and keyhole patterns admit every
\* name of the tree.
C29_ObtainedIffAdmitted ==
    (/\ tPc = "done"
     /\ ~HasUnknownField(tBinding.access_key_patt)
     /\ ~HasUnknownField(tBinding.access_keyhole_patt)) =>
        \A required_type \in RequiredTypes :
            LET full_name == tRequest.method
                exc == try_to_obtain(full_name, tBinding, required_type)
                admitted ==
                    /\ full_name \in item_dict
                    /\ HasRequiredType(full_name, required_type)
                    /\ FoundIn(
                         Format(tBinding.access_keyhole_patt, full_name).text,
                         Format(tBinding.access_key_patt, full_name).text)
            IN  /\ (exc = None) <=> admitted
                /\ ~admitted => exc.name = "RPCNotFoundError"
                /\ (/\ tBinding.access_key_patt = <<>>
                    /\ tBinding.access_keyhole_patt = <<>>
                    /\ full_name \in item_dict
                    /\ HasRequiredType(full_name, required_type)) =>
                        exc = None

\* a procedure below a module was called under a binding whose keyhole
\* occurs in the key past its start, and it was obtained and returned
C29_Witness ==
    /\ tPc = "done"
    /\ tRequest.method = <<"priv", "sub", "do">>
    /\ tBinding.access_key_patt = <<Field("full_name")>>
    /\ tBinding.access_keyhole_patt = <<Lit("sub")>>
    /\ tResponse.error = None

\* ------------------------------------------- one task thread, step by step
\* RPCTaskThread.run followed from the request message to the Result, for
\* request messages of every shape.

\* msg.properties['reply_to'] of the deliveries
WorkerReplyTos == {"rq1", "rq2"}

\* Request messages.  json: the bytes are not JSON (invalid), JSON but not
\* an object (non_object), or an object with these members:
\*   id: absent, null, or a value;  method: absent, a str, a unicode that is
\*   ASCII or not, or an int;  params: absent, a list or a dict;
\*   kwparams: absent, a dict or a list;  extra: some other member is there
MessageIds == {"absent", "null", "rq1", "r9"}
MessageMethods == {"absent", "str", "unicode", "unicode_non_ascii", "int"}
ObjectMessages ==
    [json : {"object"}, id : MessageIds, method : MessageMethods,
     params : {"absent", "list", "dict"},
     kwparams : {"absent", "dict", "list"}, extra : BOOLEAN]

OtherMessage(json) ==
    [json |-> json, id |-> "absent", method |-> "absent",
     params |-> "absent", kwparams |-> "absent", extra |-> FALSE]

Messages == ObjectMessages \cup {OtherMessage("invalid"),
                                 OtherMessage("non_object")}

\* an exception as run() keeps it: exc_type.__name__, str(exc), and whether
\* exc.__dict__ can be dumped
Exc(name, message, data) == [name |-> name, message |-> message, data |-> data]

InternalServerError == Exc("RPCInternalServerError", <<"Internal server error">>, "ok")

\* (variant: a null id is not looked at)
deserialize_request_NoIdCheck(m) ==
    IF m.json = "invalid" THEN [raised |-> "NameError"]
    ELSE IF \/ m.json = "non_object"
            \/ m.id = "absent" \/ m.method = "absent" \/ m.params = "absent"
            \/ m.extra
            \/ m.method \notin {"str", "unicode"}
            \/ m.params # "list"
            \/ m.kwparams \notin {"absent", "dict"}
    THEN [raised |-> "RPCInvalidRequestError"]
    ELSE [raised |-> "none",
          request |-> [id |-> m.id, method |-> "str", params |-> m.params,
                       kwparams |-> "dict"]]

\* RPCTaskThread._deserialize_request: the request, or the name of the
\* exception that leaves it.  For bytes that are not JSON the except clause
\* evaluates RPCDeserializationError, a name threads.py does not have
\* (errors.py defines RPCServerDeserializationError): NameError.
deserialize_request(m) ==
    IF m.json = "invalid" THEN [raised |-> "NameError"]
    ELSE IF \/ m.json = "non_object"
            \/ m.id = "absent" \/ m.method = "absent" \/ m.params = "absent"
            \/ m.extra
            \/ m.method \notin {"str", "unicode", "unicode_non_ascii"}
            \/ m.params # "list"
            \/ m.kwparams \notin {"absent", "dict"}
            \/ m.method = "unicode_non_ascii"
    THEN [raised |-> "RPCInvalidRequestError"]
    ELSE IF m.id = "null"
    THEN [raised |-> "RPCNotificationsNotImplementedError"]
    ELSE [raised |-> "none",
          request |-> [id |-> m.id, method |-> "str", params |-> m.params,
                       kwparams |-> "dict"]]

\* what try_to_obtain does for the method of a request
ObtainOutcomes == {"found", "RPCNotFoundError", "BadAccessPatternError"}

\* run, lines 1114-1142: exc_type and exc after the first try block
FirstBlockExc(raised) ==
    CASE raised = "none" -> None
      [] raised \in {"RPCNotFoundError", "RPCInvalidRequestError",
                     "RPCNotificationsNotImplementedError"} ->
            Exc(raised, <<"str(exc)", raised>>, "ok")
      [] OTHER -> InternalServerError

\* exceptions a procedure may hand to raise_exc or MethodExcWrapper: an
\* instance of cls with message msg, or the class cls itself
Exceptions ==
    [is_type : BOOLEAN, cls : {"MyError"}, msg : {"m1"},
     dict : {"ok", "TypeError"}]

\* errors.raise_exc: the exception wrapped, or TypeError
raise_exc(exception, has_args) ==
    IF ~has_args THEN [raises |-> "MethodExcWrapper", wrapped_exc |-> exception]
    ELSE IF exception.is_type
    THEN [raises |-> "MethodExcWrapper",
          wrapped_exc |-> [exception EXCEPT !.is_type = FALSE]]
    ELSE [raises |-> "TypeError"]

\* MethodExcWrapper.__init__ with wrapped_exc given, as run() reads it:
\* wrapped_exc_type = type(wrapped_exc), which for a class is `type'
WrappedExc(wrapped_exc) ==
    IF wrapped_exc.is_type
    THEN Exc("type", <<"repr of the class", wrapped_exc.cls>>, "TypeError")
    ELSE Exc(wrapped_exc.cls, <<wrapped_exc.msg>>, wrapped_exc.dict)

\* what json.dumps does with a value: ok, TypeError (not serializable) or
\* another exception (ValueError: circular reference, bad bytes)
Dumps == {"ok", "TypeError", "ValueError"}

\* what the callable of the procedure does once entered
Bodies ==
    [does : {"return"}, json : {"v1", "null"}, dumps : Dumps]
    \cup [does : {"raise_exc"}, exception : Exceptions, has_args : BOOLEAN]
    \cup [does : {"MethodExcWrapper"}, handling : BOOLEAN,
          exception : {e \in Exceptions : ~e.is_type}]
    \cup [does : {"raise"}, cls : {"BadAccessPatternError", "KeyError",
                                   "RPCMethodArgError"}]

\* run, lines 1148-1199: the call of the procedure and the except clauses.
\* binds: the arguments pass RPCMethod's argument test.  unbound: neither
\* exc_type nor response_dict is set afterwards.
CallOutcome(invoked, result, exc, unbound) ==
    [invoked |-> invoked, result |-> result, exc |-> exc, unbound |-> unbound]

Call(request, binds, body) ==
    IF ~binds
    THEN CallOutcome(0, None,
                     Exc("RPCMethodArgError",
                         <<"Cannot call method", request.method>>, "ok"),
                     FALSE)
    ELSE CASE body.does = "return" ->
                CallOutcome(1, [json |-> body.json, dumps |-> body.dumps],
                            None, FALSE)
           [] body.does = "raise_exc" ->
                LET r == raise_exc(body.exception, body.has_args)
                IN  IF r.raises = "TypeError"
                    THEN CallOutcome(1, None, InternalServerError, FALSE)
                    ELSE CallOutcome(1, None, WrappedExc(r.wrapped_exc), FALSE)
           [] body.does = "MethodExcWrapper" ->
                IF body.handling
                THEN CallOutcome(1, None, WrappedExc(body.exception), FALSE)
                ELSE CallOutcome(1, None, None, TRUE)
           [] body.does = "raise" ->
                IF body.cls = "RPCMethodArgError"
                THEN CallOutcome(1, None,
                                 Exc("RPCMethodArgError",
                                     <<"Cannot call method", request.method>>,
                                     "ok"),
                                 FALSE)
                ELSE CallOutcome(1, None, InternalServerError, FALSE)

\* run, lines 1194-1211: response_dict
\* (variant: the id is taken from the task in every error response)
ResponseOf_TaskId(task, request, exc, result) ==
    IF exc # None
    THEN [result |-> None, error |-> exc, id |-> task.reply_to]
    ELSE [result |-> result, error |-> None, id |-> request.id]

ResponseOf(task, request, exc, result) ==
    IF exc # None
    THEN [result |-> None, error |-> exc,
          id |-> IF request # None THEN request.id ELSE task.reply_to]
    ELSE [result |-> result, error |-> None, id |-> request.id]

\* what encoding.dumps(response_dict) does
DumpsOf(response_dict) ==
    IF response_dict.error # None THEN response_dict.error.data
    ELSE response_dict.result.dumps

\* RPCTaskThread._serialize_response, when dumps raises nothing or TypeError
serialize_response(response_dict) ==
    IF DumpsOf(response_dict) = "TypeError"
    THEN [result |-> None,
          error |-> Exc("RPCServerSerializationError",
                        <<"Result not serializable">>, "absent"),
          id |-> response_dict.id]
    ELSE response_dict

WorkerInit ==
    /\ ThreadsInit
    /\ ClientIdle
    /\ TreeIdle
    /\ MethodIdle
    /\ BindIdle
    /\ GrowIdle
    /\ BuildIdle
    /\ wPc = "obtain"
    /\ \E r \in WorkerReplyTos, m \in Messages :
          wTask = [id |-> 1, reply_to |-> r, request_message |-> m]
    /\ wRequest = None
    /\ wExc = None
    /\ wBody = None
    /\ wInvoked = 0
    /\ wResult = None
    /\ wPuts = <<>>

otherThanTask ==
    <<threadVars, serverVars, clientVars, treeVars, methodVars, bindVars,
      growVars, buildVars>>

\* run, lines 1114-1142: deserialize the request, obtain the method
WObtain ==
    /\ wPc = "obtain"
    /\ LET d == deserialize_request(wTask.request_message)
       IN  IF d.raised # "none"
           THEN /\ wRequest' = None
                /\ wExc' = FirstBlockExc(d.raised)
                /\ wPc' = "respond"
           ELSE \E o \in ObtainOutcomes :
                   /\ wRequest' = d.request
                   /\ wExc' = FirstBlockExc(IF o = "found" THEN "none" ELSE o)
                   /\ wPc' = IF o = "found" THEN "call" ELSE "respond"
    /\ UNCHANGED <<wTask, wBody, wInvoked, wResult, wPuts, otherThanTask>>

\* run, lines 1144-1199: call the procedure
WCall ==
    /\ wPc = "call"
    /\ \E binds \in BOOLEAN, body \in Bodies :
          LET c == Call(wRequest, binds, body)
          IN  /\ wBody' = IF binds THEN body ELSE None
              /\ wInvoked' = wInvoked + c.invoked
              /\ wExc' = c.exc
              /\ wResult' = c.result
              /\ wPc' = IF c.unbound THEN "crashed" ELSE "respond"
    /\ UNCHANGED <<wTask, wRequest, wPuts, otherThanTask>>

\* run, lines 1201-1220: build the response, dump it, put the Result; an
\* exception here reaches the outer except clause and nothing is put
WRespond ==
    /\ wPc = "respond"
    /\ LET response_dict == ResponseOf(wTask, wRequest, wExc, wResult)
       IN  IF DumpsOf(response_dict) \in {"ok", "TypeError"}
           THEN /\ wPuts' = Append(wPuts,
                                   Result(wTask.id, wTask.reply_to,
                                          serialize_response(response_dict)))
                /\ wPc' = "done"
           ELSE /\ wPuts' = wPuts
                /\ wPc' = "crashed"
    /\ UNCHANGED <<wTask, wRequest, wExc, wBody, wInvoked, wResult,
                   otherThanTask>>

WorkerNext == WObtain \/ WCall \/ WRespond

WorkerSpec == WorkerInit /\ [][WorkerNext]_vars

\* the response of the Result the thread put (when it has put one)
PutResponse == wPuts[1].response_message

\* the procedure handed an exception to the wrapper and the wrapper was
\* raised: raise_exc with an exception it accepts, or MethodExcWrapper()
\* while the exception is being handled
RaisedThroughWrapper(body) ==
    \/ body.does = "raise_exc" /\ (body.has_args => body.exception.is_type)
    \/ body.does = "MethodExcWrapper" /\ body.handling

\* C21 (as claimed): an exception raised through the wrapper, with
\* attributes that can be dumped, is reported with the wrapped exception's
\* own type name and message; BadAccessPattern
\* and any other exception but RPCMethodArgError that leaves the procedure
\* is reported as RPCInternalServerError with the fixed message and no
\* detail.
C21_ErrorClassification ==
    (wPc = "done" /\ wBody # None) =>
        /\ (RaisedThroughWrapper(wBody) /\ wBody.exception.dict = "ok") =>
              /\ PutResponse.error # None
              /\ PutResponse.error.name = wBody.exception.cls
              /\ PutResponse.error.message = <<wBody.exception.msg>>
        /\ (\/ wBody.does = "raise" /\ wBody.cls # "RPCMethodArgError"
            \/ wBody.does = "raise_exc" /\ ~RaisedThroughWrapper(wBody)) =>
              /\ PutResponse.error # None
              /\ PutResponse.error.name = "RPCInternalServerError"
              /\ PutResponse.error.message = <<"Internal server error">>
              /\ PutResponse.error.data = "ok"

\* C22 (as claimed): bytes that are not JSON get a response whose error is
\* the deserialization error, not RPCInternalServerError, with result null,
\* and no procedure is invoked.
C22_DeserializationErrorReported ==
    (wPc = "done" /\ wTask.request_message.json = "invalid") =>
        /\ Len(wPuts) = 1
        /\ wInvoked = 0
        /\ PutResponse.result = None
        /\ PutResponse.error # None
        /\ PutResponse.error.name \in {"RPCDeserializationError",
                                       "RPCServerDeserializationError"}

\* a request object that is well formed but for its id, which is null
WellFormedNotification(m) ==
    /\ m.json = "object"
    /\ m.id = "null"
    /\ m.method \in {"str", "unicode"}
    /\ m.params = "list"
    /\ m.kwparams \in {"absent", "dict"}
    /\ ~m.extra

\* C23: for a well-formed request with a null id the thread never calls a
\* procedure and never fails; it ends having put exactly one Result, an
\* error response named RPCNotificationsNotImplementedError with result
\* null, addressed to the task's reply_to.
C23_NotificationRefused ==
    (wPc # "off" /\ WellFormedNotification(wTask.request_message)) =>
        /\ wInvoked = 0
        /\ wBody = None
        /\ wPc \in {"obtain", "respond", "done"}
        /\ Len(wPuts) = (IF wPc = "done" THEN 1 ELSE 0)
        /\ wPc = "done" =>
              /\ PutResponse.result = None
              /\ PutResponse.error # None
              /\ PutResponse.error.name = "RPCNotificationsNotImplementedError"
              /\ wPuts[1].reply_to = wTask.reply_to
              /\ wPuts[1].task_id = wTask.id

C23_Witness ==
    /\ wPc = "done"
    /\ WellFormedNotification(wTask.request_message)
    /\ Len(wPuts) = 1
    /\ PutResponse.error.name = "RPCNotificationsNotImplementedError"

\* the request message decodes to an object that passes every test of
\* _deserialize_request
DecodedAndValidated(m) ==
    /\ m.json = "object"
    /\ m.id \notin {"absent", "null"}
    /\ m.method \in {"str", "unicode"}
    /\ m.params = "list"
    /\ m.kwparams \in {"absent", "dict"}
    /\ ~m.extra

\* C24: every Result put carries the task's id and reply_to and a response
\* with exactly the members result, error and id; error is null iff the
\* call succeeded (the procedure returned and its value could be dumped),
\* and then result is that value; result is null when error is not; id is
\* the request's id when the request was decoded and validated, and the
\* task's reply_to otherwise.
C24_ResponseShape ==
    \A k \in DOMAIN wPuts :
        LET response == wPuts[k].response_message
            m == wTask.request_message
        IN  /\ k = 1
            /\ wPuts[k].kind = "result"
            /\ wPuts[k].task_id = wTask.id
            /\ wPuts[k].reply_to = wTask.reply_to
            /\ DOMAIN response = {"result", "error", "id"}
            /\ (response.error = None) <=>
                  (/\ wBody # None
                   /\ wBody.does = "return"
                   /\ wBody.dumps = "ok")
            /\ response.error = None =>
                  /\ response.result # None
                  /\ response.result.json = wBody.json
            /\ response.error # None =>
                  /\ response.result = None
                  /\ response.error.name # "none"
            /\ response.id = (IF DecodedAndValidated(m) THEN m.id
                              ELSE wTask.reply_to)

C24_Witness ==
    /\ Len(wPuts) = 1
    /\ PutResponse.error # None
    /\ DecodedAndValidated(wTask.request_message)
    /\ PutResponse.id = "r9"
    /\ wTask.reply_to # "r9"

\* --------------------------------------------- one RPCMethod, wrapped and
\* called: RPCMethod.__init__ / _examine_and_prepare_arg_spec / __call__

\* longest parameter list of the callables wrapped, most positional
\* arguments of a call
MaxParams == 3

ACCESS_DICT_KWARG == "_access_dict"
ACCESS_KEY_KWARG == "_access_key_patt"
ACCESS_KEYHOLE_KWARG == "_access_keyhole_patt"
ACC_KWARGS == {ACCESS_DICT_KWARG, ACCESS_KEY_KWARG, ACCESS_KEYHOLE_KWARG}

\* parameter names of the callables: public ones and the access-related
PublicNames == {"a", "b"}
ParamNames == PublicNames \cup ACC_KWARGS

Range(f) == {f[i] : i \in DOMAIN f}

\* inspect.getargspec of a function: its parameter names in order, how many
\* of the last ones have defaults, whether it has *varargs and **keywords
ArgSpecs ==
    {spec \in [args : UNION {[1..n -> ParamNames] : n \in 0..MaxParams},
               ndefaults : 0..MaxParams,
               varargs : BOOLEAN, keywords : BOOLEAN] :
        /\ spec.ndefaults <= Len(spec.args)
        /\ \A i, j \in DOMAIN spec.args :
              spec.args[i] = spec.args[j] => i = j}

\* the arguments of a call: the number of positional ones and the names of
\* the keyword ones
CallArgs(npos, kwargs) == [npos |-> npos, kwargs |-> kwargs]

\* Python's binding of the arguments of a call to a function with this
\* argument specification: no TypeError is raised
Binds(spec, call) ==
    LET n == Len(spec.args)
    IN  /\ call.npos <= n \/ spec.varargs
        /\ \A k \in call.kwargs :
              IF k \in Range(spec.args)
              THEN \A i \in 1..n : spec.args[i] = k => i > call.npos
              ELSE spec.keywords
        /\ \A i \in 1..n :
              (i > call.npos /\ spec.args[i] \notin call.kwargs) =>
                  i > n - spec.ndefaults

\* _examine_and_prepare_arg_spec, lines 263-277: the loop that collects the
\* official arguments.  For a public argument after an access-related one
\* the TypeError is built (line 271) but not raised; the argument is left
\* out and the loop goes on.
RECURSIVE OfficialArgs(_, _)
OfficialArgs(args, last_acc_kwarg) ==
    IF args = <<>> THEN <<>>
    ELSE IF Head(args) \in ACC_KWARGS THEN OfficialArgs(Tail(args), TRUE)
    ELSE IF last_acc_kwarg THEN OfficialArgs(Tail(args), TRUE)
    ELSE <<Head(args)>> \o OfficialArgs(Tail(args), FALSE)

\* RPCMethod.__init__ for a function: the exception raised, and the object
examine_and_prepare_arg_spec(spec) ==
    [raised |-> "none",
     method |-> [official_args |-> OfficialArgs(spec.args, FALSE),
                 gets_access_dict |-> ACCESS_DICT_KWARG \in Range(spec.args),
                 gets_access_key |-> ACCESS_KEY_KWARG \in Range(spec.args),
                 gets_access_keyhole |->
                     ACCESS_KEYHOLE_KWARG \in Range(spec.args),
                 arg_test_callable |-> spec,
                 callable_obj |-> spec]]

\* (variant: no keyword is removed)
StripUnwanted_Nothing(method, kwargs) == kwargs

\* __call__, lines 341-348: the access-related keywords the callable does
\* not take are popped
StripUnwanted(method, kwargs) ==
    LET Pop(from, name, gets) == IF gets THEN from ELSE from \ {name}
    IN  Pop(Pop(Pop(kwargs, ACCESS_DICT_KWARG, method.gets_access_dict),
                ACCESS_KEY_KWARG, method.gets_access_key),
            ACCESS_KEYHOLE_KWARG, method.gets_access_keyhole)

\* what the callable does once entered
CallableBodies == {"returns", "raises"}

\* (variant: the callable is called without the argument test)
RPCMethodCall_NoTest(method, call, body) ==
    LET passed == CallArgs(call.npos, StripUnwanted(method, call.kwargs))
    IN  IF ~Binds(method.callable_obj, passed)
        THEN [raised |-> "TypeError", received |-> <<>>, returned |-> None]
        ELSE IF body = "raises"
        THEN [raised |-> "BodyError", received |-> <<passed>>,
              returned |-> None]
        ELSE [raised |-> "none", received |-> <<passed>>,
              returned |-> [value |-> "result"]]

\* RPCMethod.__call__: the exception raised, the arguments of every entry
\* of the callable, and the value returned
RPCMethodCall(method, call, body) ==
    LET passed == CallArgs(call.npos, StripUnwanted(method, call.kwargs))
    IN  IF ~Binds(method.arg_test_callable, passed)
        THEN [raised |-> "RPCMethodArgError", received |-> <<>>,
              returned |-> None]
        ELSE IF body = "raises"
        THEN [raised |-> "BodyError", received |-> <<passed>>,
              returned |-> None]
        ELSE [raised |-> "none", received |-> <<passed>>,
              returned |-> [value |-> "result"]]

\* keyword arguments of the calls: public ones, known to the callable or
\* not, and none, one or all of the access-related ones
CallKwargs ==
    {pub \cup acc : pub \in SUBSET (PublicNames \cup {"x"}),
                    acc \in {{}, {ACCESS_DICT_KWARG}, ACC_KWARGS}}

MethodInit ==
    /\ ThreadsInit
    /\ ClientIdle
    /\ TreeIdle
    /\ TaskIdle
    /\ BindIdle
    /\ GrowIdle
    /\ BuildIdle
    /\ mPc = "wrap"
    /\ mSpec \in ArgSpecs
    /\ mMethod = None
    /\ mRaised = "none"
    /\ mCalled = None
    /\ mReceived = <<>>
    /\ mReturned = None

otherThanMethod ==
    <<threadVars, serverVars, clientVars, treeVars, taskVars, bindVars,
      growVars, buildVars>>

\* RPCMethod(callable_obj, full_name)
MWrap ==
    /\ mPc = "wrap"
    /\ LET made == examine_and_prepare_arg_spec(mSpec)
       IN  /\ mRaised' = made.raised
           /\ mMethod' = IF made.raised = "none" THEN made.method ELSE None
           /\ mPc' = IF made.raised = "none" THEN "ready" ELSE "rejected"
    /\ UNCHANGED <<mSpec, mCalled, mReceived, mReturned, otherThanMethod>>

\* rpc_method(*args, **kwargs)
MCall ==
    /\ mPc = "ready"
    /\ \E npos \in 0..MaxParams, kwargs \in CallKwargs,
          body \in CallableBodies :
          LET out == RPCMethodCall(mMethod, CallArgs(npos, kwargs), body)
          IN  /\ mCalled' = CallArgs(npos, kwargs)
              /\ mRaised' = out.raised
              /\ mReceived' = mReceived \o out.received
              /\ mReturned' = out.returned
    /\ mPc' = "called"
    /\ UNCHANGED <<mSpec, mMethod, otherThanMethod>>

MethodNext == MWrap \/ MCall

MethodSpec == MethodInit /\ [][MethodNext]_vars

\* the arguments of the call without the access-related keywords that the
\* callable's parameter list does not name
Wanted(spec, call) ==
    CallArgs(call.npos, call.kwargs \ (ACC_KWARGS \ Range(spec.args)))

C26_AccessKwargsStripped ==
    mPc = "called" =>
        /\ \A k \in DOMAIN mReceived :
              mReceived[k].kwargs \cap ACC_KWARGS =
                  mCalled.kwargs \cap ACC_KWARGS \cap Range(mSpec.args)
        /\ (/\ ACC_KWARGS \subseteq mCalled.kwargs
            /\ Range(mSpec.args) \cap ACC_KWARGS = {}
            /\ Binds(mSpec, CallArgs(mCalled.npos,
                                     mCalled.kwargs \ ACC_KWARGS))) =>
              (mRaised # "RPCMethodArgError" /\ Len(mReceived) = 1)
        /\ (/\ ACC_KWARGS \subseteq mCalled.kwargs
            /\ Range(mSpec.args) \subseteq ACC_KWARGS
            /\ mSpec.args # <<>>
            /\ mCalled.npos = 0
            /\ mCalled.kwargs \subseteq ACC_KWARGS) =>
              (mRaised # "RPCMethodArgError" /\ Len(mReceived) = 1)

C26_Witness ==
    /\ mPc = "called"
    /\ mSpec.args = <<ACCESS_DICT_KWARG>>
    /\ mSpec.ndefaults = 0
    /\ ~mSpec.keywords
    /\ mCalled = CallArgs(0, ACC_KWARGS)
    /\ mReceived = <<CallArgs(0, {ACCESS_DICT_KWARG})>>

\* an access-related parameter stands before a public one
AccessBeforePublic(spec) ==
    \E i, j \in DOMAIN spec.args :
        /\ i < j
        /\ spec.args[i] \in ACC_KWARGS
        /\ spec.args[j] \notin ACC_KWARGS

\* C27 (as claimed): wrapping a callable with an access-related parameter
\* before a public one ends with an error and makes no RPCMethod.
C27_MisorderedRejected ==
    (mPc \notin {"off", "wrap"} /\ AccessBeforePublic(mSpec)) =>
        (mMethod = None /\ mRaised = "TypeError")

\* ------------------------------------------------ the manager's bindings
\* RPCManager.init, amqp_init and get_and_go followed for a list of
\* bindings: the queues named, the consumers registered, and the Task
\* made of a message that a consumer delivers.

\* the longest list of bindings a manager is made with
MaxBindings == 2

Exchanges == {"ex1", "ex2"}
RoutingKeys == {"rk1", "rk2"}

\* two access policies: everything, and the names under system
Policies ==
    {[access_key_patt |-> <<>>, access_keyhole_patt |-> <<>>],
     [access_key_patt |-> <<Field("full_name")>>,
      access_keyhole_patt |-> <<Lit("^"), Lit("system"), Lit("\\.")>>]}

\* BindingProps(exchange, routing_key, access_key_patt, access_keyhole_patt)
BindingProps ==
    {[exchange |-> e, routing_key |-> rk,
      access_key_patt |-> p.access_key_patt,
      access_keyhole_patt |-> p.access_keyhole_patt] :
        e \in Exchanges, rk \in RoutingKeys, p \in Policies}

BindingLists ==
    UNION {[1..n -> BindingProps] : n \in 1..MaxBindings}

client_id == "cid"

\* hashlib.sha1('{0.exchange}|{0.routing_key}').hexdigest()[0:6]: a value
\* that the exchange and the routing key determine
unique_id(binding_props) ==
    <<binding_props.exchange, "|", binding_props.routing_key>>

\* '.'.join(['mtrpc_queue', client_id, unique_id])
QueueName(binding_props) ==
    <<"mtrpc_queue", client_id, unique_id(binding_props)>>

\* the loop of RPCManager.init over bindings[1..n]: _queues gets a name
\* per binding, _queues2bindings[queue] is assigned per binding
RECURSIVE InitQueues(_, _)
InitQueues(bindings, n) ==
    IF n = 0 THEN [queues |-> <<>>, queues2bindings |-> <<>>]
    ELSE LET before == InitQueues(bindings, n - 1)
             queue == QueueName(bindings[n])
         IN  [queues |-> Append(before.queues, queue),
              queues2bindings |->
                  [q \in DOMAIN before.queues2bindings \cup {queue} |->
                      IF q = queue THEN bindings[n]
                      ELSE before.queues2bindings[q]]]

\* RPCManager.create_access_dict, the fields the binding decides
create_access_dict(queue, binding_props) ==
    [exchange |-> binding_props.exchange,
     queue |-> queue,
     rk |-> binding_props.routing_key]

\* the Task that get_and_go makes of a message with this consumer tag
TaskOfBinding(queue, queues2bindings) ==
    LET binding_props == queues2bindings[queue]
    IN  [access_dict |-> create_access_dict(queue, binding_props),
         access_key_patt |-> binding_props.access_key_patt,
         access_keyhole_patt |-> binding_props.access_keyhole_patt]

BindInit ==
    /\ ThreadsInit
    /\ ClientIdle
    /\ TreeIdle
    /\ TaskIdle
    /\ MethodIdle
    /\ GrowIdle
    /\ BuildIdle
    /\ bPc = "new"
    /\ bBindings \in BindingLists
    /\ bQueues = <<>>
    /\ bQueues2bindings = <<>>
    /\ bConsumers = {}
    /\ bTask = None

otherThanBind ==
    <<threadVars, serverVars, clientVars, treeVars, taskVars, methodVars,
      growVars, buildVars>>

\* RPCManager.init(bindings, ...)
BManagerInit ==
    /\ bPc = "new"
    /\ LET made == InitQueues(bBindings, Len(bBindings))
       IN  /\ bQueues' = made.queues
           /\ bQueues2bindings' = made.queues2bindings
    /\ bPc' = "inited"
    /\ UNCHANGED <<bBindings, bConsumers, bTask, otherThanBind>>

\* RPCManager.amqp_init: every queue of _queues is declared, bound and
\* consumed under its own name as the consumer tag
BAmqpInit ==
    /\ bPc = "inited"
    /\ bConsumers' = {bQueues[i] : i \in DOMAIN bQueues}
    /\ bPc' = "consuming"
    /\ UNCHANGED <<bBindings, bQueues, bQueues2bindings, bTask, otherThanBind>>

\* RPCManager.get_and_go(msg), msg delivered by one of the consumers
BGetAndGo ==
    /\ bPc = "consuming"
    /\ bTask = None
    /\ \E consumer_tag \in bConsumers :
          bTask' = TaskOfBinding(consumer_tag, bQueues2bindings)
    /\ UNCHANGED <<bPc, bBindings, bQueues, bQueues2bindings, bConsumers,
                   otherThanBind>>

\* the task is over, the next message can be delivered
BTaskDone ==
    /\ bPc = "consuming"
    /\ bTask # None
    /\ bTask' = None
    /\ UNCHANGED <<bPc, bBindings, bQueues, bQueues2bindings, bConsumers,
                   otherThanBind>>

BindNext == BManagerInit \/ BAmqpInit \/ BGetAndGo \/ BTaskDone

BindSpec == BindInit /\ [][BindNext]_vars

\* the configured bindings whose request queue is this one
BindingsOfQueue(queue) ==
    {i \in DOMAIN bBindings : bQueues[i] = queue}

\* C30 (as claimed): configured bindings that differ have request queues
\* of their own, and the task made of a message consumed from a binding's queue
\* carries the access key and keyhole patterns of that binding, whatever
\* the list of bindings is, two bindings with the same exchange and routing
\* key and different patterns included.
C30_TaskCarriesItsBinding ==
    bTask # None =>
        /\ \A i, j \in DOMAIN bBindings :
              bBindings[i] # bBindings[j] => bQueues[i] # bQueues[j]
        /\ \A i \in BindingsOfQueue(bTask.access_dict.queue) :
              /\ bTask.access_key_patt = bBindings[i].access_key_patt
              /\ bTask.access_keyhole_patt = bBindings[i].access_keyhole_patt

\* ------------------------------------------------------ the growing tree
\* An RPCTree that starts empty and is added to with get_rpc_module and
\* add_rpc_method, successfully or not, and iterated in between.  A full
\* name is the sequence of the segments that the dots separate; a module
\* object is kept under the full name it was created for.

\* the number of calls made on one tree
MaxGrowCalls == 4

\* local names, in ascending order
SortedSegs == <<"a", "b">>
Segs == {SortedSegs[i] : i \in DOMAIN SortedSegs}

\* the module names that the calls pass: '', 'a', 'a.b', ...
ModuleNames ==
    {<<>>} \cup {<<x>> : x \in Segs} \cup {<<x, y>> : x, y \in Segs}

\* the full_name arguments of get_rpc_module: '.a' and 'a.' with the rest
GetNames == ModuleNames \cup {<<"", "a">>, <<"a", "">>}

\* the method_local_name arguments of add_rpc_method, '' with the rest
LocalNames == Segs \cup {""}

\* _sorted_method_items of a fresh module: no cache
NoCache == [cached |-> FALSE, items |-> <<>>]

\* RPCModule.__init__
NewRPCModule ==
    [method_dict |-> {}, submod_dict |-> {},
     sorted_method_items |-> NoCache, sorted_submod_items |-> NoCache]

\* RPCTree.__init__: _item_dict = {}
NewRPCTree == [item_dict |-> <<>>, modules |-> <<>>]

\* d[key] = value
SetItem(d, key, value) ==
    [k \in DOMAIN d \cup {key} |-> IF k = key THEN value ELSE d[k]]

Returned(tree) == [tree |-> tree, raised |-> "none"]
RaisedIn(tree, exc) == [tree |-> tree, raised |-> exc]

ParentName(full_name) == SubSeq(full_name, 1, Len(full_name) - 1)
LastName(full_name) == full_name[Len(full_name)]

\* a variant that keeps the cache of the sorted pairs when a method is added
add_method_KeepCache(tree, module_name, local_name) ==
    LET rpc_module == tree.modules[module_name]
    IN  IF local_name = "" THEN RaisedIn(tree, "ValueError")
        ELSE IF local_name \in rpc_module.method_dict
        THEN RaisedIn(tree, "ValueError")
        ELSE Returned([tree EXCEPT !.modules[module_name] =
                 [rpc_module EXCEPT
                     !.method_dict = @ \cup {local_name}]])

\* RPCModule.add_method, on the module kept under module_name
add_method(tree, module_name, local_name) ==
    LET rpc_module == tree.modules[module_name]
    IN  IF local_name = "" THEN RaisedIn(tree, "ValueError")
        ELSE IF local_name \in rpc_module.method_dict
        THEN RaisedIn(tree, "ValueError")
        ELSE Returned([tree EXCEPT !.modules[module_name] =
                 [rpc_module EXCEPT
                     !.sorted_method_items = NoCache,
                     !.method_dict = @ \cup {local_name}]])

\* RPCModule.add_submod, on the module kept under module_name
add_submod(tree, module_name, local_name) ==
    LET rpc_module == tree.modules[module_name]
    IN  IF local_name = "" THEN RaisedIn(tree, "ValueError")
        ELSE IF local_name \in rpc_module.submod_dict
        THEN RaisedIn(tree, "ValueError")
        ELSE Returned([tree EXCEPT !.modules[module_name] =
                 [rpc_module EXCEPT
                     !.sorted_submod_items = NoCache,
                     !.submod_dict = @ \cup {local_name}]])

\* self._item_dict[full_name] = a new RPCModule
PutModule(tree, full_name) ==
    [item_dict |-> SetItem(tree.item_dict, full_name, "RPCModule"),
     modules |-> SetItem(tree.modules, full_name, NewRPCModule)]

\* RPCTree.get_rpc_module
RECURSIVE get_rpc_module(_, _)
get_rpc_module(tree, full_name) ==
    IF full_name \in DOMAIN tree.item_dict
    THEN IF tree.item_dict[full_name] # "RPCModule"
         THEN RaisedIn(tree, "TypeError")
         ELSE Returned(tree)
    ELSE IF full_name # <<>> /\ Head(full_name) = ""
    THEN RaisedIn(tree, "ValueError")
    ELSE IF full_name = <<>> THEN Returned(PutModule(tree, full_name))
    ELSE LET parent == get_rpc_module(tree, ParentName(full_name))
             added == add_submod(PutModule(parent.tree, full_name),
                                 ParentName(full_name), LastName(full_name))
         IN  IF parent.raised # "none" THEN parent
             ELSE IF added.raised # "none"
             THEN RaisedIn(parent.tree, added.raised)
             ELSE added

\* a variant without the assertion on the method's full name
add_rpc_method_NoAssert(tree, module_full_name, method_local_name, is_callable) ==
    LET method_full_name == Append(module_full_name, method_local_name)
        added == add_method(tree, module_full_name, method_local_name)
    IN  IF ~is_callable THEN Returned(tree)
        ELSE IF module_full_name = <<>> THEN RaisedIn(tree, "TypeError")
        ELSE IF module_full_name \notin DOMAIN tree.item_dict
        THEN RaisedIn(tree, "KeyError")
        ELSE IF tree.item_dict[module_full_name] # "RPCModule"
        THEN RaisedIn(tree, "TypeError")
        ELSE IF added.raised # "none" THEN added
        ELSE Returned([added.tree EXCEPT !.item_dict =
                 SetItem(@, method_full_name, "RPCMethod")])

\* RPCTree.add_rpc_method
add_rpc_method(tree, module_full_name, method_local_name, is_callable) ==
    LET method_full_name == Append(module_full_name, method_local_name)
        added == add_method(tree, module_full_name, method_local_name)
    IN  IF ~is_callable THEN Returned(tree)
        ELSE IF module_full_name = <<>> THEN RaisedIn(tree, "TypeError")
        ELSE IF method_full_name \in DOMAIN tree.item_dict
        THEN RaisedIn(tree, "AssertionError")
        ELSE IF module_full_name \notin DOMAIN tree.item_dict
        THEN RaisedIn(tree, "KeyError")
        ELSE IF tree.item_dict[module_full_name] # "RPCModule"
        THEN RaisedIn(tree, "TypeError")
        ELSE IF added.raised # "none" THEN added
        ELSE Returned([added.tree EXCEPT !.item_dict =
                 SetItem(@, method_full_name, "RPCMethod")])

\* sorted(d.iteritems()), the local names
sorted(local_names) == SelectSeq(SortedSegs, LAMBDA x : x \in local_names)

\* RPCModule.loc_names2methods / loc_names2submods: the cache when there is
\* one, the sorted pairs otherwise
sorted_method_items(rpc_module) ==
    IF rpc_module.sorted_method_items.cached
    THEN rpc_module.sorted_method_items.items
    ELSE sorted(rpc_module.method_dict)

sorted_submod_items(rpc_module) ==
    IF rpc_module.sorted_submod_items.cached
    THEN rpc_module.sorted_submod_items.items
    ELSE sorted(rpc_module.submod_dict)

\* the module after loc_names2methods and loc_names2submods rebuilt its
\* caches
Cached(rpc_module) ==
    [rpc_module EXCEPT
        !.sorted_method_items =
            [cached |-> TRUE, items |-> sorted_method_items(rpc_module)],
        !.sorted_submod_items =
            [cached |-> TRUE, items |-> sorted_submod_items(rpc_module)]]

Prefixed(prefix, local_names) ==
    [i \in 1..Len(local_names) |-> Append(prefix, local_names[i])]

\* RPCTree._iter_subtree with get_names_only, include_methods and
\* include_submods: this module (below the top), its methods, then every
\* submodule's subtree
RECURSIVE iter_names(_, _, _)
iter_names(tree, full_name, include_this_module) ==
    LET rpc_module == tree.modules[full_name]
        submods == Prefixed(full_name, sorted_submod_items(rpc_module))
        RECURSIVE subiter(_)
        subiter(i) ==
            IF i > Len(submods) THEN <<>>
            ELSE iter_names(tree, submods[i], TRUE) \o subiter(i + 1)
    IN  (IF include_this_module THEN <<full_name>> ELSE <<>>)
            \o Prefixed(full_name, sorted_method_items(rpc_module))
            \o subiter(1)

\* the modules an iteration read the sorted pairs of
ModulesRead(tree, full_name, deep) ==
    {m \in DOMAIN tree.modules :
        \/ m = full_name
        \/ /\ deep
           /\ Len(m) > Len(full_name)
           /\ SubSeq(m, 1, Len(full_name)) = full_name}

\* RPCTree.all_names(full_name, deep=deep), consumed to the end
all_names(tree, full_name, deep) ==
    IF full_name \notin DOMAIN tree.item_dict
    THEN [tree |-> tree, raised |-> "KeyError", out |-> <<>>]
    ELSE IF tree.item_dict[full_name] # "RPCModule"
    THEN [tree |-> tree, raised |-> "TypeError", out |-> <<>>]
    ELSE [tree |-> [tree EXCEPT !.modules =
                       [m \in DOMAIN @ |->
                           IF m \in ModulesRead(tree, full_name, deep)
                           THEN Cached(@[m]) ELSE @[m]]],
          raised |-> "none",
          out |-> IF deep THEN iter_names(tree, full_name, FALSE)
                  ELSE Prefixed(full_name,
                           sorted_method_items(tree.modules[full_name])
                           \o sorted_submod_items(tree.modules[full_name]))]

\* RPCTree.__iter__, consumed to the end
tree_iter(tree) ==
    LET names == all_names(tree, <<>>, TRUE)
    IN  [names EXCEPT !.out = IF names.raised = "none"
                              THEN <<<<>>>> \o @ ELSE @]

GrowInit ==
    /\ ThreadsInit
    /\ ClientIdle
    /\ TreeIdle
    /\ TaskIdle
    /\ MethodIdle
    /\ BindIdle
    /\ BuildIdle
    /\ gPc = "on"
    /\ gCalls = 0
    /\ gTree = NewRPCTree
    /\ gRaised = "none"
    /\ gLast = None
    /\ gOut = <<>>

otherThanGrow ==
    <<threadVars, serverVars, clientVars, treeVars, taskVars, methodVars, bindVars,
      buildVars>>

\* rpc_tree.get_rpc_module(full_name)
GGetRpcModule ==
    /\ gPc = "on"
    /\ gCalls < MaxGrowCalls
    /\ gCalls' = gCalls + 1
    /\ \E full_name \in GetNames :
          LET got == get_rpc_module(gTree, full_name)
          IN  /\ gTree' = got.tree
              /\ gRaised' = got.raised
              /\ gLast' = [op |-> "get_rpc_module", full_name |-> full_name]
    /\ UNCHANGED <<gPc, gOut, otherThanGrow>>

\* rpc_tree.add_rpc_method(module_full_name, method_local_name, obj, pymod)
GAddRpcMethod ==
    /\ gPc = "on"
    /\ gCalls < MaxGrowCalls
    /\ gCalls' = gCalls + 1
    /\ \E module_full_name \in ModuleNames, method_local_name \in LocalNames,
          is_callable \in BOOLEAN :
          LET added == add_rpc_method(gTree, module_full_name,
                                      method_local_name, is_callable)
          IN  /\ gTree' = added.tree
              /\ gRaised' = added.raised
              /\ gLast' = [op |-> "add_rpc_method",
                           full_name |-> Append(module_full_name,
                                                method_local_name)]
    /\ UNCHANGED <<gPc, gOut, otherThanGrow>>

\* list(rpc_tree.all_names(full_name, deep=deep))
GAllNames ==
    /\ gPc = "on"
    /\ gCalls < MaxGrowCalls
    /\ gCalls' = gCalls + 1
    /\ \E full_name \in ModuleNames, deep \in BOOLEAN :
          LET names == all_names(gTree, full_name, deep)
          IN  /\ gTree' = names.tree
              /\ gRaised' = names.raised
              /\ gOut' = names.out
              /\ gLast' = [op |-> IF deep THEN "all_names deep"
                                  ELSE "all_names",
                           full_name |-> full_name]
    /\ UNCHANGED <<gPc, otherThanGrow>>

\* list(rpc_tree)
GIter ==
    /\ gPc = "on"
    /\ gCalls < MaxGrowCalls
    /\ gCalls' = gCalls + 1
    /\ LET names == tree_iter(gTree)
       IN  /\ gTree' = names.tree
           /\ gRaised' = names.raised
           /\ gOut' = names.out
           /\ gLast' = [op |-> "iter", full_name |-> <<>>]
    /\ UNCHANGED <<gPc, otherThanGrow>>

GrowNext == GGetRpcModule \/ GAddRpcMethod \/ GAllNames \/ GIter

GrowSpec == GrowInit /\ [][GrowNext]_vars

\* the kind of object that a namespace binds a local name to, in each of
\* its two maps
BoundAsMethod(tree, full_name) ==
    /\ full_name # <<>>
    /\ ParentName(full_name) \in DOMAIN tree.modules
    /\ LastName(full_name) \in tree.modules[ParentName(full_name)].method_dict

BoundAsSubmod(tree, full_name) ==
    /\ full_name # <<>>
    /\ ParentName(full_name) \in DOMAIN tree.modules
    /\ LastName(full_name) \in tree.modules[ParentName(full_name)].submod_dict

\* C31: after any sequence of get_rpc_module and add_rpc_method calls,
\* successful or failing, no namespace has a local name in both its
\* procedure map and its child-namespace map, and the flat index holds for
\* a full name the one object that the parent namespace binds it to: a
\* procedure or a namespace, never both.
C31_OneObjectPerName ==
    gPc = "on" =>
        /\ \A m \in DOMAIN gTree.modules :
              gTree.modules[m].method_dict
                  \cap gTree.modules[m].submod_dict = {}
        /\ \A m \in DOMAIN gTree.modules :
              /\ \A l \in gTree.modules[m].method_dict :
                    /\ Append(m, l) \in DOMAIN gTree.item_dict
                    /\ gTree.item_dict[Append(m, l)] = "RPCMethod"
              /\ \A l \in gTree.modules[m].submod_dict :
                    /\ Append(m, l) \in DOMAIN gTree.item_dict
                    /\ gTree.item_dict[Append(m, l)] = "RPCModule"
        /\ \A n \in DOMAIN gTree.item_dict :
              /\ gTree.item_dict[n] = "RPCModule" <=> n \in DOMAIN gTree.modules
              /\ n # <<>> =>
                    /\ gTree.item_dict[n] = "RPCMethod"
                           <=> BoundAsMethod(gTree, n)
                    /\ gTree.item_dict[n] = "RPCModule"
                           <=> BoundAsSubmod(gTree, n)

\* a procedure was to be added under the full name of a namespace, the
\* call failed and the name is still bound to the namespace
C31_Witness ==
    /\ gPc = "on"
    /\ gLast = [op |-> "add_rpc_method", full_name |-> <<"a", "b">>]
    /\ gRaised = "AssertionError"
    /\ <<"a", "b">> \in DOMAIN gTree.item_dict
    /\ gTree.item_dict[<<"a", "b">>] = "RPCModule"

\* the order that the names alone fix: of the names of the flat index right
\* below a namespace, the procedures in ascending order of the local name,
\* then every child namespace in ascending order, each followed by its own
\* names
RECURSIVE NamesInOrder(_, _)
NamesInOrder(index, top) ==
    LET Below(kind) ==
            SelectSeq(SortedSegs,
                      LAMBDA x : /\ Append(top, x) \in DOMAIN index
                                 /\ index[Append(top, x)] = kind)
        procedures == Below("RPCMethod")
        children == Below("RPCModule")
        RECURSIVE Subtrees(_)
        Subtrees(i) ==
            IF i > Len(children) THEN <<>>
            ELSE <<Append(top, children[i])>>
                     \o NamesInOrder(index, Append(top, children[i]))
                     \o Subtrees(i + 1)
    IN  [i \in 1..Len(procedures) |-> Append(top, procedures[i])]
            \o Subtrees(1)

\* the names of the flat index below a namespace
Descendants(index, top) ==
    {n \in DOMAIN index :
        Len(n) > Len(top) /\ SubSeq(n, 1, Len(top)) = top}

\* C32: deep iteration over a namespace yields every descendant in the flat
\* index exactly once, in the order that the names alone fix (procedures
\* ascending, then every child namespace ascending, its name followed by
\* its subtree), whatever the order of the insertions and of earlier
\* iterations was; the iteration of a tree that has its root is the root
\* name followed by that sequence, and is as long as the flat index is large.
C32_DeepIterationOrder ==
    /\ (gPc = "on" /\ gLast # None /\ gLast.op = "all_names deep"
        /\ gRaised = "none") =>
          /\ gOut = NamesInOrder(gTree.item_dict, gLast.full_name)
          /\ {gOut[i] : i \in DOMAIN gOut}
                 = Descendants(gTree.item_dict, gLast.full_name)
          /\ \A i, j \in DOMAIN gOut : i # j => gOut[i] # gOut[j]
    /\ (gPc = "on" /\ gLast # None /\ gLast.op = "iter"
        /\ gRaised = "none") =>
          /\ gOut = <<<<>>>> \o NamesInOrder(gTree.item_dict, <<>>)
          /\ Len(gOut) = Cardinality(DOMAIN gTree.item_dict)

\* a deep iteration from the root has yielded a namespace and, after it,
\* its two procedures
C32_Witness ==
    /\ gPc = "on"
    /\ gLast = [op |-> "all_names deep", full_name |-> <<>>]
    /\ gRaised = "none"
    /\ gOut = <<<<"a">>, <<"a", "a">>, <<"a", "b">>>>

\* ------------------------------------------------------------ the build
\* RPCTree.build for graphs of Python modules.  A Python module (a unit)
\* has module members, functions, a class, an integer, __rpc_methods__ and
\* maybe __all__; a member is kept under the name of the module it refers
\* to.  No unit declares a doc, tags or a post-init callable of its own.

\* the Python modules: the root and two more
root_pymod == "r"
Pymods == {root_pymod, "x", "y"}
MemberNames == {"x", "y"}

\* the attributes every unit has besides its members: two functions, a
\* class and an integer
FunctionNames == {"f", "_g"}
ClassName == "K"
IntName == "n"

\* the items __rpc_methods__ is made of: a local name, a dotted path, the
\* wildcard alone or at the end of a path
WILDCARD == "*"
RootExports ==
    {<<"x">>, <<"x", "f">>, <<"x", WILDCARD>>, <<"x", "y", "f">>,
     <<"y", "x", "f">>, <<"x", "y", "x", "f">>}
XExports ==
    {<<"f">>, <<WILDCARD>>, <<"y">>, <<"y", "f">>, <<"n", "f">>,
     <<"ghost", "f">>}
YExports == {<<"f">>, <<WILDCARD>>, <<"x">>, <<"x", "f">>}

\* __all__ of a unit: not declared (None), or a list of names
AllLists == {{"f"}, {"_g", ClassName}}

\* at most this many items in the root's __rpc_methods__
MaxRootExports == 2

\* no item, or one
AtMostOne(S) == {{}} \cup {{e} : e \in S}

\* the graphs: the members of every unit, its __rpc_methods__, the __all__
\* of the units (declared or not), and whether dict iteration gives the
\* members in ascending or in descending order of their names
Graphs ==
    [members : {[p \in Pymods |->
                   IF p = root_pymod THEN m.r
                   ELSE IF p = "x" THEN m.x ELSE m.y] :
                m \in [r : {{"x"}, {"x", "y"}},
                       x : SUBSET MemberNames,
                       y : SUBSET MemberNames]},
     rpc_methods : {[p \in Pymods |->
                       IF p = root_pymod THEN e.r
                       ELSE IF p = "x" THEN e.x ELSE e.y] :
                    e \in [r : {T \in SUBSET RootExports :
                                   Cardinality(T) <= MaxRootExports},
                           x : AtMostOne(XExports),
                           y : AtMostOne(YExports)]},
     has_all : BOOLEAN,
     all : AllLists,
     descending : BOOLEAN]

\* getattr(pymod, name): what kind of object the attribute is
AttrKind(graph, pymod, name) ==
    IF name \in graph.members[pymod] THEN "module"
    ELSE IF name \in FunctionNames THEN "function"
    ELSE IF name = ClassName THEN "class"
    ELSE IF name = IntName THEN "int"
    ELSE "missing"

\* a variant that takes all the callables of the unit that __all__ lists
public_func_names_AllCallables(graph, pymod) ==
    IF graph.has_all THEN (FunctionNames \cup {ClassName}) \cap graph.all
    ELSE {name \in FunctionNames : name # "_g"}

\* the names '*' stands for in a unit: its functions, those of __all__
\* when __all__ is declared, those without a leading underscore otherwise
public_func_names(graph, pymod) ==
    IF graph.has_all THEN FunctionNames \cap graph.all
    ELSE {name \in FunctionNames : name # "_g"}

\* the state of a build: the tree, the dicts and the set that
\* _build_subtree passes down, and what it did (warnings, post-init calls,
\* the calls of _build_subtree with the units on the call path)
NewBuild ==
    [tree |-> NewRPCTree,
     initialized_pymods |-> <<>>,
     pymods2anticipated_names |-> {},
     ancestor_pymods |-> {},
     warnings |-> {},
     postinits |-> <<>>,
     calls |-> <<>>,
     raised |-> "none"]

\* pymods2anticipated_names[(pymod, full_name)]
Anticipated(b, pymod, full_name) ==
    {a.name : a \in {a \in b.pymods2anticipated_names :
                        a.pymod = pymod /\ a.full_name = full_name}}

\* the names of a set, one after another as the iteration of the set
\* gives them
RECURSIVE IterSet(_)
IterSet(names) ==
    IF names = {} THEN <<>>
    ELSE LET name == CHOOSE name \in names : TRUE
         IN  <<name>> \o IterSet(names \ {name})

\* for name in ant_names: one name of the loop
build_name(b, graph, cur_pymod, cur_full_name, name) ==
    LET mod_name == Head(name)
        kind == AttrKind(graph, cur_pymod, mod_name)
        added == add_rpc_method(b.tree, cur_full_name, mod_name,
                                kind \in {"function", "class"})
    IN  IF b.raised # "none" THEN b
        ELSE IF Len(name) > 1
        THEN IF kind = "missing" THEN [b EXCEPT !.raised = "AttributeError"]
             ELSE IF kind = "module"
             THEN [b EXCEPT !.pymods2anticipated_names =
                      @ \cup {[pymod |-> mod_name,
                               full_name |-> Append(cur_full_name, mod_name),
                               name |-> Tail(name)]}]
             ELSE [b EXCEPT !.raised = "TypeError"]
        ELSE IF kind = "missing"
        THEN [b EXCEPT !.warnings =
                 @ \cup {[warning |-> "No such method",
                          full_name |-> Append(cur_full_name, mod_name)]}]
        ELSE [b EXCEPT !.tree = added.tree, !.raised = added.raised]

RECURSIVE build_names(_, _, _, _, _)
build_names(b, graph, cur_pymod, cur_full_name, names) ==
    IF names = <<>> THEN b
    ELSE build_names(
             build_name(b, graph, cur_pymod, cur_full_name, Head(names)),
             graph, cur_pymod, cur_full_name, Tail(names))

\* pymod_names2objs.iteritems(), in the order of this build
MemberOrder(graph, pymod) ==
    SelectSeq(IF graph.descending THEN <<"y", "x">> ELSE <<"x", "y">>,
              LAMBDA m : m \in graph.members[pymod])

\* a variant that lets a unit be the basis of one more namespace
already_used_Never(b, cur_pymod, cur_full_name) == FALSE

\* _full_name = initialized_pymods.setdefault(cur_pymod, cur_full_name);
\* _full_name != cur_full_name
already_used_as_a_base(b, cur_pymod, cur_full_name) ==
    /\ cur_pymod \in DOMAIN b.initialized_pymods
    /\ b.initialized_pymods[cur_pymod] # cur_full_name

\* RPCTree._build_subtree; path: the units of the calls that are not over
RECURSIVE build_subtree(_, _, _, _, _)
build_subtree(b0, graph, cur_pymod, cur_full_name, path) ==
    LET b == [b0 EXCEPT !.calls =
                 Append(@, [pymod |-> cur_pymod, full_name |-> cur_full_name,
                            path |-> path])]
        names == graph.rpc_methods[cur_pymod]
        with_names == Anticipated(b, cur_pymod, cur_full_name) \cup names
        scoped_ant_names == {Head(name) : name \in with_names}
        ant_names ==
            IF <<WILDCARD>> \in with_names
            THEN (with_names
                      \cup {<<f>> : f \in public_func_names(graph, cur_pymod)})
                     \ {<<WILDCARD>>}
            ELSE with_names
        used == cur_pymod \in DOMAIN b.initialized_pymods
        used_elsewhere ==
            /\ ant_names # {}
            /\ already_used_as_a_base(b, cur_pymod, cur_full_name)
        got == get_rpc_module(b.tree, cur_full_name)
        declared ==
            IF ant_names = {} THEN b
            ELSE [b EXCEPT
                     !.initialized_pymods =
                         IF used THEN @ ELSE SetItem(@, cur_pymod, cur_full_name),
                     !.tree = got.tree,
                     !.raised = got.raised,
                     !.postinits =
                         IF got.raised = "none"
                         THEN Append(@, [pymod |-> cur_pymod,
                                         full_name |-> cur_full_name])
                         ELSE @]
        named == build_names(declared, graph, cur_pymod, cur_full_name,
                     IterSet(ant_names))
        members == MemberOrder(graph, cur_pymod)
        RECURSIVE submods(_, _)
        submods(bb, i) ==
            IF i > Len(members) \/ bb.raised # "none" THEN bb
            ELSE IF members[i] \notin scoped_ant_names THEN submods(bb, i + 1)
            ELSE IF members[i] \in bb.ancestor_pymods
            THEN submods([bb EXCEPT !.warnings =
                             @ \cup {[warning |-> "cyclic module reference",
                                      full_name |-> Append(cur_full_name,
                                                           members[i])]}],
                         i + 1)
            ELSE submods(build_subtree(bb, graph, members[i],
                                       Append(cur_full_name, members[i]),
                                       Append(path, cur_pymod)),
                         i + 1)
        entered == [named EXCEPT !.ancestor_pymods = @ \cup {cur_pymod}]
        left == submods(entered, 1)
    IN  IF used_elsewhere
        THEN [b EXCEPT !.warnings =
                 @ \cup {[warning |-> "already used as a base",
                          full_name |-> cur_full_name]}]
        ELSE IF named.raised # "none" THEN named
        ELSE IF left.raised # "none" THEN left
        ELSE [left EXCEPT !.ancestor_pymods = @ \ {cur_pymod}]

\* RPCTree.build on a new tree: the build state it leaves, and is_built
build(graph) ==
    LET b == build_subtree(NewBuild, graph, root_pymod, <<>>, <<>>)
    IN  [b |-> b, is_built |-> b.raised = "none"]

BuildInit ==
    /\ ThreadsInit
    /\ ClientIdle
    /\ TreeIdle
    /\ TaskIdle
    /\ MethodIdle
    /\ BindIdle
    /\ GrowIdle
    /\ uPc = "new"
    /\ uGraph \in Graphs
    /\ uResult = None

otherThanBuild ==
    <<threadVars, serverVars, clientVars, treeVars, taskVars, methodVars, bindVars,
      growVars>>

\* rpc_tree = RPCTree(); rpc_tree.build(root_pymod)
UBuild ==
    /\ uPc = "new"
    /\ uResult' = build(uGraph)
    /\ uPc' = IF build(uGraph).is_built THEN "built" ELSE "failed"
    /\ UNCHANGED <<uGraph, otherThanBuild>>

\* rpc_tree.build(root_pymod) once more, on the tree that is built:
\* RuntimeError, nothing changes
UBuildAgain ==
    /\ uPc = "built"
    /\ uPc' = "refused"
    /\ UNCHANGED <<uGraph, uResult, otherThanBuild>>

BuildNext == UBuild \/ UBuildAgain

BuildSpec == BuildInit /\ [][BuildNext]_vars

\* the local names bound to procedures in the namespace of a full name
MethodsUnder(tree, full_name) ==
    {l \in FunctionNames \cup {ClassName, IntName} \cup MemberNames :
        /\ Append(full_name, l) \in DOMAIN tree.item_dict
        /\ tree.item_dict[Append(full_name, l)] = "RPCMethod"}

\* the names exported from a unit built under a full name: its own
\* __rpc_methods__ and what the paths of the units above left for it
ExportedTo(pymod, full_name) ==
    uGraph.rpc_methods[pymod]
        \cup Anticipated(uResult.b, pymod, full_name)

\* the units that were made the basis of a namespace, with its full name
Based ==
    {c \in {uResult.b.calls[i] : i \in DOMAIN uResult.b.calls} :
        /\ c.pymod \in DOMAIN uResult.b.initialized_pymods
        /\ uResult.b.initialized_pymods[c.pymod] = c.full_name
        /\ ExportedTo(c.pymod, c.full_name) # {}}

\* C36: a wildcard export of a unit binds exactly the functions of the unit
\* that __all__ lists when the unit declares __all__, and otherwise the
\* functions whose names do not start with an underscore; with the
\* callables exported by name they are all the procedures of the namespace.
C36_WildcardBindsPublicFunctions ==
    uPc = "built" =>
        \A c \in Based :
            <<WILDCARD>> \in ExportedTo(c.pymod, c.full_name) =>
                MethodsUnder(uResult.b.tree, c.full_name) =
                    {f \in FunctionNames :
                        IF uGraph.has_all THEN f \in uGraph.all
                        ELSE f \notin {"_g"}}
                    \cup {l \in FunctionNames \cup {ClassName} :
                             <<l>> \in ExportedTo(c.pymod, c.full_name)}

\* a build bound the wildcard of x, left by the root's path x.*, under an
\* __all__ that lists a function with an underscore and a class
C36_Witness ==
    /\ uPc = "built"
    /\ uGraph.rpc_methods[root_pymod] = {<<"x", WILDCARD>>}
    /\ uGraph.has_all
    /\ uGraph.all = {"_g", ClassName}
    /\ MethodsUnder(uResult.b.tree, <<"x">>) = {"_g"}

\* the dotted paths exported from a unit that was made the basis of a
\* namespace, whose first segment is an attribute of one of these kinds
PathsThrough(c, kinds) ==
    {name \in ExportedTo(c.pymod, c.full_name) :
        /\ Len(name) > 1
        /\ AttrKind(uGraph, c.pymod, Head(name)) \in kinds}

\* C35 (as claimed): when an exported dotted path names an intermediate
\* segment that is not a module of the current unit, be it another object
\* of the unit or no attribute of the unit at all, the build fails with
\* TypeError and the tree is not marked as built.
C35_NonModuleIntermediate ==
    (/\ uPc \in {"built", "failed"}
     /\ \E c \in Based :
           PathsThrough(c, {"function", "class", "int", "missing"}) # {}) =>
        /\ uResult.b.raised = "TypeError"
        /\ ~uResult.is_built

\* the calls of _build_subtree of the build, in the order they were made
Calls == {uResult.b.calls[i] : i \in DOMAIN uResult.b.calls}

\* the calls that reached a unit which is the basis of a namespace with
\* another full name
ReachedAgain ==
    {c \in Calls :
        /\ c.pymod \in DOMAIN uResult.b.initialized_pymods
        /\ uResult.b.initialized_pymods[c.pymod] # c.full_name}

\* C34: during one build a unit becomes the basis of at most one namespace:
\* when a unit that backs the namespace A is reached under another full
\* name B, no namespace B is in the tree, no procedure is bound under B and
\* the post-init hook ran once for the unit, for A.
C34_UnitBacksOneNamespace ==
    uPc \in {"built", "failed"} =>
        /\ \A c \in ReachedAgain :
              /\ c.full_name \notin DOMAIN uResult.b.tree.item_dict
              /\ MethodsUnder(uResult.b.tree, c.full_name) = {}
              /\ \A i \in DOMAIN uResult.b.postinits :
                    uResult.b.postinits[i].pymod = c.pymod =>
                        uResult.b.postinits[i].full_name =
                            uResult.b.initialized_pymods[c.pymod]
        /\ \A i, j \in DOMAIN uResult.b.postinits :
              uResult.b.postinits[i].pymod = uResult.b.postinits[j].pymod
                  => i = j

\* x, the basis of the namespace x with the procedure f, was reached again
\* as y.x with a procedure to bind, and was refused
C34_Witness ==
    /\ uPc = "built"
    /\ [pymod |-> "x", full_name |-> <<"y", "x">>, path |-> <<"r", "y">>]
           \in ReachedAgain
    /\ [warning |-> "already used as a base", full_name |-> <<"y", "x">>]
           \in uResult.b.warnings
    /\ uResult.b.initialized_pymods["x"] = <<"x">>
    /\ "f" \in MethodsUnder(uResult.b.tree, <<"x">>)

\* the member references the build refused to follow because the member is
\* on the call path: the unit of the namespace and the member's name
BackReferences ==
    {[pymod |-> IF Len(w.full_name) = 1 THEN root_pymod
                ELSE w.full_name[Len(w.full_name) - 1],
      member |-> w.full_name[Len(w.full_name)]] :
        w \in {w \in uResult.b.warnings :
                  w.warning = "cyclic module reference"}}

\* the same graph, the units without the members that refer back
WithoutBackReferences ==
    [uGraph EXCEPT !.members =
        [p \in Pymods |->
            @[p] \ {r.member : r \in {r \in BackReferences : r.pymod = p}}]]

\* no reference that was refused on one call path was followed on another
OnlyBackReferences ==
    \A r \in BackReferences :
        \A c \in Calls :
            ~(/\ c.pymod = r.member
              /\ c.path # <<>>
              /\ c.path[Len(c.path)] = r.pymod)

====
